---- MODULE Spec2Model ----
(***************************************************************************)
(* Notification delivery core of gemini-chat-sorcery:                      *)
(*   - the dispatcher of src/utils/notificationService.ts                  *)
(*     (showNotification, playNotificationSound, the failed set and its    *)
(*     retries, the audio asset);                                          *)
(*   - the useNotifications hook of ToolsTabContent.tsx lines 176-596      *)
(*     (the Store, the background buffer, the dedup registry and the       *)
(*     subscription manager with its reconnect backoff).                   *)
(* Text is a sequence of one-character strings, so that ids are built by   *)
(* concatenation as the template strings of the source build them.         *)
(***************************************************************************)
EXTENDS Integers, Sequences, FiniteSets, TLC

VARIABLES
  now,                     \* Date.now()
  \* ---- notificationService.ts (module state)
  activeNotifications,     \* let activeNotifications: NotificationData[]
  failedNotifications,     \* const failedNotifications = new Set<string>() (insertion order)
  notificationSoundLoaded, \* let notificationSoundLoaded
  notificationSound,       \* let notificationSound: 0 is null, else the Audio element
  soundLoads,              \* load chains of loadSound: [el, retryCount, wait]; wait 0: element el
                           \* is loading in loadSound(retryCount); else the delay of the timer
                           \* that will run loadSound(retryCount + 1)
  calls,                   \* invocations of showNotification, in call order; pc "play": a
                           \* play() promise is pending, "soundwait": a 500 ms timer,
                           \* "perm": the permission request, "hung": nothing that
                           \* could resume it, "done": it has returned
  retryTimers,             \* pending setTimeout(..., 1000) of showNotification's catch;
                           \* handled (history): a manual retry took the id from the failed set
  retryLoops,              \* running retryFailedNotifications loops
  hasBridge,               \* window.Android?.showNotification is present
  provider,                \* NotificationProvider: notifications is its useState list as
                           \* rendered last, queue the list set since (none or one);
                           \* isInitialized its flag; requests the pending calls of
                           \* Notification.requestPermission() made outside showNotification;
                           \* dismissedAt (history): the number of showNotification calls made
                           \* when dismissAllNotifications last ran, -1 when it never ran
  permission,              \* Notification.permission, "unsupported" when 'Notification' is not in window
  \* ---- useNotifications hook
  notifications,           \* useState<Notification[]>: the Store, as last rendered
  updateQueue,             \* setNotifications updates queued and not yet rendered
  alternateLanes,          \* the hook's alternate fiber still carries the lanes of a rendered update
  pendingNotificationsRef, \* the background buffer
  isAppVisibleRef,
  visibilityState,         \* document.visibilityState === 'visible'
  processedMessageIdsRef,
  playSound,
  listenerPlaySound,       \* the playSound of the render whose addNotification the stream callback calls
  directRecs,              \* history: the records the stream callback passed to addNotification
  storedNotifications,     \* localStorage item 'study_ai_notifications'
  storedSound,             \* localStorage item 'notification_sound_enabled'
  storageState,            \* localStorage: "ok"; "full", setItem throws; "disabled", every
                           \* access throws
  unsubscribeRef,          \* 0 is null, else the handle returned by onMessage
  liveSubs,                \* handles the push source holds a callback for
  reconnectCountRef,
  retryTimeoutRef,         \* 0 is null, else the id of the last retry timer
  reconnectTimers,         \* pending retry timers of setupListener: [id, delay]
  checkIntervals,          \* number of health-check intervals running
  mounted,                 \* the effect of lines 474-546 has not been cleaned up
  staleListeners,          \* the instances of the hook that were replaced by a new mount and
                           \* had subscribed: [processed, visible, playSound, handles], the
                           \* registry, the visibility ref and the sound flag their callbacks
                           \* read, and the number of handles they were returned
  failRun                  \* history: setup failures since the counter was last reset by a success

svcVars == <<activeNotifications, failedNotifications, notificationSoundLoaded,
             notificationSound, soundLoads, calls, retryTimers, retryLoops,
             hasBridge, provider, permission>>
storeVars == <<notifications, updateQueue, alternateLanes, pendingNotificationsRef, isAppVisibleRef,
               visibilityState, processedMessageIdsRef, playSound, listenerPlaySound, directRecs,
               storedNotifications, storedSound, storageState>>
subVars == <<unsubscribeRef, liveSubs, reconnectCountRef, retryTimeoutRef,
             reconnectTimers, checkIntervals, mounted, staleListeners, failRun>>
vars == <<now, svcVars, storeVars, subVars>>

----------------------------------------------------------------------------
(* Bounds of the model *)
MaxCalls == 3      \* invocations of showNotification in one behaviour
MaxInFlight == 1   \* invocations of showNotification running at one time
MaxEvents == 3     \* stream events registered in the dedup registry
MaxLoads == 2      \* Audio elements with listeners attached at one time
MaxStore == 6      \* records in the Store and the buffer when a consumer adds one
MaxQueue == 2      \* Store operations of a consumer queued between two renders
MaxIntervals == 2  \* health-check intervals an earlier mount left running when the hook is mounted

(* Constants of the program *)
MAX_RETRIES == 3
AutoRetryDelay == 1000
DedupWindow == 5000
MaxReconnect == 5
BackoffCap == 30000
ExtendedDelay == 60000
RegistryWindow == 300000

----------------------------------------------------------------------------
(* Text *)
Dash == "-"

RECURSIVE Digits(_)
Digits(n) == IF n < 10 THEN <<ToString(n)>>
             ELSE Append(Digits(n \div 10), ToString(n % 10))

\* String(n) of a JavaScript integer
NumToStr(n) == IF n < 0 THEN <<Dash>> \o Digits(0 - n) ELSE Digits(n)

Min(a, b) == IF a < b THEN a ELSE b

RECURSIVE Pow2(_)
Pow2(k) == IF k = 0 THEN 1 ELSE 2 * Pow2(k - 1)

SeqDelete(s, x) == SelectSeq(s, LAMBDA y : y # x)
SeqHas(s, x) == \E i \in 1..Len(s) : s[i] = x
SeqAdd(s, x) == IF SeqHas(s, x) THEN s ELSE Append(s, x)

----------------------------------------------------------------------------
(* notificationService.ts: the dispatcher *)

\* the NotificationData values passed to showNotification
TestData == [title |-> <<"Test Notification">>, message |-> <<"Notification system is working">>]
DataSet == { [title |-> <<"T">>, message |-> <<"M">>] }

generateNotificationId(data, t) ==
  data.title \o <<Dash>> \o data.message \o <<Dash>> \o NumToStr(t)

\* attemptPlay chooses the preloaded element or an ad-hoc one
PlayPath(loaded, sound) == IF loaded /\ sound # 0 THEN "pre" ELSE "adhoc"

\* the model starts an invocation while fewer than MaxInFlight have not
\* returned
CanStart(cs) ==
  /\ Len(cs) < MaxCalls
  /\ Cardinality({i \in 1..Len(cs) : cs[i].pc # "done"}) < MaxInFlight

\* variant: the sound attempt is not made before the channels are tried
StartCallSilent(data, gen, origin, t, failed, loaded, sound, throws) ==
  [ data |-> data,
    id |-> generateNotificationId(data, t),
    wasFailed |-> SeqHas(failed, generateNotificationId(data, t)),
    pc |-> IF throws THEN "soundwait" ELSE "play",
    path |-> PlayPath(loaded, sound), round |-> 0,
    trace |-> <<>>, perm |-> "unread", gen |-> gen, origin |-> origin,
    channel |-> "none", outcome |-> "pending" ]

\* showNotification up to its first await: lines 198-208 and attemptPlay(0),
\* which waits for a play() promise or, when cloneNode() or new Audio throws
\* (catch of lines 176-183), for the 500 ms timer of the next attempt
StartCall(data, gen, origin, t, failed, loaded, sound, throws) ==
  [ data |-> data,
    id |-> generateNotificationId(data, t),
    wasFailed |-> SeqHas(failed, generateNotificationId(data, t)),
    pc |-> IF throws THEN "soundwait" ELSE "play",
    path |-> PlayPath(loaded, sound), round |-> 0,
    trace |-> <<"sound">>, perm |-> "unread", gen |-> gen, origin |-> origin,
    channel |-> "none", outcome |-> "pending" ]

\* the async function returns: its promise resolves, the locals of attemptPlay are gone
Finish(c, ch) == [c EXCEPT !.pc = "done", !.channel = ch, !.outcome = "resolved",
                           !.path = "none", !.round = 0]

\* lines 231-256: the OS channel and the fall-through to the UI
ShowAfterPermission(c, failed, canUse, osThrows) ==
  IF canUse
  THEN LET c1 == [c EXCEPT !.trace = Append(@, "os")] IN
       IF ~osThrows
       THEN [call |-> Finish(c1, "os"), failed |-> SeqDelete(failed, c.id)]
       ELSE [call |-> Finish(c1, "ui"), failed |-> SeqDelete(failed, c.id)]
  ELSE [call |-> Finish(c, "ui"), failed |-> SeqDelete(failed, c.id)]

\* variant: after the bridge has shown the notification, the OS notification
\* is shown as well when the permission is granted
ShowAfterSoundBoth(c, failed, bridge, bridgeThrows, perm, osThrows) ==
  LET c1 == IF bridge THEN [c EXCEPT !.trace = Append(@, "bridge")] ELSE c IN
  IF bridge /\ ~bridgeThrows
  THEN [call |-> Finish(IF perm = "granted" THEN [c1 EXCEPT !.trace = Append(@, "os")]
                        ELSE c1, "bridge"),
        failed |-> SeqDelete(failed, c.id)]
  ELSE LET c2 == [c1 EXCEPT !.trace = Append(@, "permcheck"), !.perm = perm] IN
       IF perm = "default"
       THEN [call |-> [c2 EXCEPT !.pc = "perm", !.trace = Append(@, "permreq")],
             failed |-> failed]
       ELSE ShowAfterPermission(c2, failed, perm = "granted", osThrows)

\* lines 213-230: the native bridge, then areBrowserNotificationsSupported
\* up to its await of Notification.requestPermission()
ShowAfterSound(c, failed, bridge, bridgeThrows, perm, osThrows) ==
  LET c1 == IF bridge THEN [c EXCEPT !.trace = Append(@, "bridge")] ELSE c IN
  IF bridge /\ ~bridgeThrows
  THEN [call |-> Finish(c1, "bridge"), failed |-> SeqDelete(failed, c.id)]
  ELSE LET c2 == [c1 EXCEPT !.trace = Append(@, "permcheck"), !.perm = perm] IN
       IF perm = "default"
       THEN [call |-> [c2 EXCEPT !.pc = "perm", !.trace = Append(@, "permreq")],
             failed |-> failed]
       ELSE ShowAfterPermission(c2, failed, perm = "granted", osThrows)

\* the id setTimeout returns: not the id of a pending timer
FreshTimeout(timers) ==
  CHOOSE k \in 1..(Cardinality(timers) + 1) :
    /\ \A t \in timers : t.tid # k
    /\ \A f \in 1..(k - 1) : \E t \in timers : t.tid = f

\* lines 258-274: the catch block; the promise of the async function resolves
ShowCatch(c, failed, timers, t) ==
  IF ~c.wasFailed
  THEN [call |-> Finish(c, "failed"),
        failed |-> SeqAdd(failed, c.id),
        timers |-> timers \cup {[tid |-> FreshTimeout(timers),
                                 fireAt |-> t + AutoRetryDelay, data |-> c.data,
                                 id |-> c.id, gen |-> c.gen, handled |-> FALSE]}]
  ELSE [call |-> Finish(c, "failed"), failed |-> failed, timers |-> timers]

----------------------------------------------------------------------------
(* useNotifications: the subscription manager, lines 359-418 and 474-546 *)

\* what onMessage(callback) does: returns an unsubscribe handle, returns
\* nothing, or raises
SubscribeOutcomes == {"handle", "none", "raise"}

\* a handle the push source has not given out and the hook does not hold
FreshHandle(held, live) ==
  CHOOSE h \in 1..(Cardinality(live) + 2) :
    /\ h # held /\ h \notin live
    /\ \A f \in 1..(h - 1) : f = held \/ f \in live

\* the id setTimeout returns: not the id of a pending timer nor the id held
FreshTimer(ref, timers) ==
  CHOOSE k \in 1..(Cardinality(timers) + 2) :
    /\ k # ref /\ (\A t \in timers : t.id # k)
    /\ \A f \in 1..(k - 1) : f = ref \/ \E t \in timers : t.id = f

\* line 484
ReconnectDelay(count) == Min(BackoffCap, Pow2(count) * 1000)

\* setupMessageListener, lines 359-418, on the manager's fields
SetupMessageListener(s, outcome) ==
  LET live0 == IF s.unsub # 0 THEN s.live \ {s.unsub} ELSE s.live
      h == FreshHandle(0, live0)
  IN IF outcome = "handle"
     THEN [s EXCEPT !.unsub = h, !.live = live0 \cup {h}]
     ELSE [s EXCEPT !.unsub = 0, !.live = live0]

\* variant: the counter is incremented once more before the reset
ScheduleRetryOffByOne(s) ==
  LET k == FreshTimer(s.ref, s.timers) IN
  IF s.count <= MaxReconnect
  THEN [s EXCEPT !.count = s.count + 1,
                 !.ref = k,
                 !.timers = s.timers \cup {[id |-> k, delay |-> ReconnectDelay(s.count)]},
                 !.run = IF s.run >= MaxReconnect + 1 THEN 1 ELSE s.run + 1]
  ELSE [s EXCEPT !.count = 0,
                 !.ref = k,
                 !.timers = s.timers \cup {[id |-> k, delay |-> ExtendedDelay]},
                 !.run = IF s.run >= MaxReconnect + 1 THEN 1 ELSE s.run + 1]

\* variant: the sixth retry keeps the capped exponential delay
ScheduleRetryCapped(s) ==
  LET k == FreshTimer(s.ref, s.timers) IN
  IF s.count < MaxReconnect
  THEN [s EXCEPT !.count = s.count + 1,
                 !.ref = k,
                 !.timers = s.timers \cup {[id |-> k, delay |-> ReconnectDelay(s.count)]},
                 !.run = IF s.run >= MaxReconnect + 1 THEN 1 ELSE s.run + 1]
  ELSE [s EXCEPT !.count = 0,
                 !.ref = k,
                 !.timers = s.timers \cup {[id |-> k, delay |-> ReconnectDelay(s.count)]},
                 !.run = IF s.run >= MaxReconnect + 1 THEN 1 ELSE s.run + 1]

\* variant: after the fifth retry the manager gives up
ScheduleRetryGivesUp(s) ==
  LET k == FreshTimer(s.ref, s.timers) IN
  IF s.count < MaxReconnect
  THEN [s EXCEPT !.count = s.count + 1,
                 !.ref = k,
                 !.timers = s.timers \cup {[id |-> k, delay |-> ReconnectDelay(s.count)]},
                 !.run = IF s.run >= MaxReconnect + 1 THEN 1 ELSE s.run + 1]
  ELSE [s EXCEPT !.count = 0,
                 !.run = IF s.run >= MaxReconnect + 1 THEN 1 ELSE s.run + 1]

\* lines 479-502: no handle was returned, a retry is scheduled
ScheduleRetry(s) ==
  LET k == FreshTimer(s.ref, s.timers) IN
  IF s.count < MaxReconnect
  THEN [s EXCEPT !.count = s.count + 1,
                 !.ref = k,
                 !.timers = s.timers \cup {[id |-> k, delay |-> ReconnectDelay(s.count)]},
                 !.run = IF s.run >= MaxReconnect + 1 THEN 1 ELSE s.run + 1]
  ELSE [s EXCEPT !.count = 0,
                 !.ref = k,
                 !.timers = s.timers \cup {[id |-> k, delay |-> ExtendedDelay]},
                 !.run = IF s.run >= MaxReconnect + 1 THEN 1 ELSE s.run + 1]

\* setupListener, lines 475-529
SetupListener(s, outcome) ==
  LET s1 == SetupMessageListener(s, outcome) IN
  IF s1.unsub = 0
  THEN ScheduleRetry(s1)
  ELSE [s1 EXCEPT !.count = 0, !.intervals = s1.intervals + 1, !.run = 0]

\* the manager's fields as one record
SubState ==
  [unsub |-> unsubscribeRef, live |-> liveSubs, count |-> reconnectCountRef,
   ref |-> retryTimeoutRef, timers |-> reconnectTimers, intervals |-> checkIntervals,
   run |-> failRun]

SetSubState(s) ==
  /\ unsubscribeRef' = s.unsub
  /\ liveSubs' = s.live
  /\ reconnectCountRef' = s.count
  /\ retryTimeoutRef' = s.ref
  /\ reconnectTimers' = s.timers
  /\ checkIntervals' = s.intervals
  /\ failRun' = s.run

\* testNotification, lines 332-346, on the showNotification call it awaited
TestNotificationResult(c) == c.outcome = "resolved"

\* lines 511-520: the health check reconnects when the test reports a failure
HealthThen(c) ==
  IF c.origin = "health" /\ c.pc = "done" /\ ~TestNotificationResult(c)
  THEN /\ \E o \in SubscribeOutcomes : SetSubState(SetupListener(SubState, o))
       /\ UNCHANGED <<mounted, staleListeners>>
  ELSE UNCHANGED subVars

----------------------------------------------------------------------------
(* notificationService.ts: the steps of showNotification *)

\* id.split('-')
RECURSIVE SplitDash(_)
SplitDash(s) ==
  IF \A i \in 1..Len(s) : s[i] # Dash THEN <<s>>
  ELSE LET k == CHOOSE i \in 1..Len(s) : s[i] = Dash /\ \A j \in 1..(i - 1) : s[j] # Dash
       IN <<SubSeq(s, 1, k - 1)>> \o SplitDash(SubSeq(s, k + 1, Len(s)))

\* parts.join('-')
RECURSIVE JoinDash(_)
JoinDash(parts) ==
  IF parts = <<>> THEN <<>>
  ELSE IF Len(parts) = 1 THEN parts[1]
  ELSE parts[1] \o <<Dash>> \o JoinDash(Tail(parts))

\* lines 304-307: the title and the message read back from a failed id
ParseFailedId(id) ==
  LET parts == SplitDash(id)
      messageParts == SubSeq(parts, 2, Len(parts) - 1)
  IN [title |-> parts[1], message |-> JoinDash(messageParts)]

\* line 309: if (title && message)
Retriable(id) == ParseFailedId(id).title # <<>> /\ ParseFailedId(id).message # <<>>

\* the ids the loop of lines 302-317 skips without awaiting anything
RECURSIVE SkipUnparseable(_)
SkipUnparseable(ids) ==
  IF ids = <<>> THEN <<>>
  ELSE IF Retriable(Head(ids)) THEN ids
  ELSE SkipUnparseable(Tail(ids))

\* invocation i of showNotification goes on to c.  When c has returned and
\* the loop of retryFailedNotifications (lines 302-317) awaits it, the loop
\* goes on with that return: it skips the ids that do not parse and calls
\* showNotification for the next one, or it ends
ReturnTo(i, c, failed) ==
  LET cs == [calls EXCEPT ![i] = c]
      waiting == {k \in 1..Len(retryLoops) : retryLoops[k].wait = i}
  IN IF c.pc # "done" \/ waiting = {}
     THEN /\ calls' = cs
          /\ UNCHANGED <<activeNotifications, retryLoops>>
     ELSE LET k == CHOOSE w \in waiting : TRUE
              ids == SkipUnparseable(retryLoops[k].ids)
          IN IF ids = <<>>
             THEN /\ calls' = cs
                  /\ retryLoops' = [j \in 1..(Len(retryLoops) - 1) |->
                                      IF j < k THEN retryLoops[j] ELSE retryLoops[j + 1]]
                  /\ UNCHANGED activeNotifications
             ELSE /\ CanStart(cs)
                  /\ \E throws \in BOOLEAN :
                       calls' = Append(cs, StartCall(ParseFailedId(Head(ids)), 0, "manual",
                                         now, failed, notificationSoundLoaded,
                                         notificationSound, throws))
                  /\ activeNotifications' =
                       Append(activeNotifications, ParseFailedId(Head(ids)))
                  /\ retryLoops' = [retryLoops EXCEPT ![k] = [ids |-> Tail(ids),
                                                              wait |-> Len(cs) + 1]]

\* the promise of playNotificationSound has resolved: showNotification goes on
AfterSoundStep(i, c, bridgeThrows, osThrows) ==
  LET r == ShowAfterSound(c, failedNotifications, hasBridge, bridgeThrows,
                          permission, osThrows) IN
  /\ ReturnTo(i, r.call, r.failed)
  /\ failedNotifications' = r.failed
  /\ UNCHANGED <<notifications, updateQueue, pendingNotificationsRef>>

\* a caller outside the core (the provider, a test) invokes showNotification
Deliver(data) ==
  /\ CanStart(calls)
  /\ \E throws \in BOOLEAN :
       calls' = Append(calls, StartCall(data, 0, "direct", now, failedNotifications,
                                      notificationSoundLoaded, notificationSound, throws))
  /\ activeNotifications' = Append(activeNotifications, data)
  /\ UNCHANGED <<now, failedNotifications, notificationSoundLoaded, notificationSound,
                 soundLoads, retryTimers, retryLoops, hasBridge, provider, permission,
                 storeVars, subVars>>

\* a play() promise settles: lines 126-141 and 148-174.  When the ad-hoc
\* mp3 attempt of round 0 is rejected, its catch handler makes the WAV
\* attempt (lines 156-168); new Audio or wavAudio.play() raising there is
\* outside the try block of attemptPlay: the handler ends, resolve is never
\* called and no timer is armed, so playNotificationSound stays pending
PlaySettles(i, ok, bridgeThrows, osThrows) ==
  /\ i \in 1..Len(calls)
  /\ calls[i].pc = "play"
  /\ LET c == calls[i] IN
     IF ok
     THEN AfterSoundStep(i, c, bridgeThrows, osThrows)
     ELSE IF c.path = "adhoc" /\ c.round = 0
          THEN /\ \E wavThrows \in BOOLEAN :
                    calls' = [calls EXCEPT ![i] = IF wavThrows
                                                  THEN [c EXCEPT !.pc = "hung"]
                                                  ELSE [c EXCEPT !.path = "wav"]]
               /\ UNCHANGED <<failedNotifications, notifications, updateQueue,
                              pendingNotificationsRef, activeNotifications, retryLoops>>
          ELSE IF c.round < MAX_RETRIES
               THEN /\ calls' = [calls EXCEPT ![i] = [c EXCEPT !.pc = "soundwait"]]
                    /\ UNCHANGED <<failedNotifications, notifications, updateQueue,
                                   pendingNotificationsRef, activeNotifications, retryLoops>>
               ELSE AfterSoundStep(i, c, bridgeThrows, osThrows)
  /\ HealthThen(calls'[i])
  /\ UNCHANGED <<now, notificationSoundLoaded, notificationSound,
                 soundLoads, retryTimers, hasBridge, provider, permission,
                 alternateLanes, isAppVisibleRef, visibilityState,
                 processedMessageIdsRef, playSound, listenerPlaySound, directRecs, storedNotifications,
                 storedSound, storageState>>

\* the 500 ms timer of a failed attempt fires: attemptPlay(retryCount + 1)
\* makes a play() promise, or it throws (cloneNode() or new Audio, catch of
\* lines 176-183) and the callback arms the next timer or, after the last
\* retry, resolves false so that showNotification goes on to the channels
SoundRetryFires(i) ==
  /\ i \in 1..Len(calls)
  /\ calls[i].pc = "soundwait"
  /\ \E throws \in BOOLEAN, bridgeThrows \in BOOLEAN, osThrows \in BOOLEAN :
       LET c == [calls[i] EXCEPT !.round = @ + 1,
                   !.path = PlayPath(notificationSoundLoaded, notificationSound)]
       IN IF ~throws
          THEN /\ calls' = [calls EXCEPT ![i] = [c EXCEPT !.pc = "play"]]
               /\ UNCHANGED <<failedNotifications, notifications, updateQueue,
                              pendingNotificationsRef, activeNotifications, retryLoops>>
          ELSE IF c.round < MAX_RETRIES
               THEN /\ calls' = [calls EXCEPT ![i] = c]
                    /\ UNCHANGED <<failedNotifications, notifications, updateQueue,
                                   pendingNotificationsRef, activeNotifications, retryLoops>>
               ELSE AfterSoundStep(i, c, bridgeThrows, osThrows)
  /\ HealthThen(calls'[i])
  /\ UNCHANGED <<now, notificationSoundLoaded, notificationSound,
                 soundLoads, retryTimers, hasBridge, provider, permission,
                 alternateLanes, isAppVisibleRef, visibilityState,
                 processedMessageIdsRef, playSound, listenerPlaySound, directRecs,
                 storedNotifications, storedSound, storageState>>

\* Notification.requestPermission() settles: lines 108-109, then 231-274
PermissionSettles(i, res, osThrows) ==
  /\ i \in 1..Len(calls)
  /\ calls[i].pc = "perm"
  /\ IF res = "reject"
     THEN LET r == ShowCatch(calls[i], failedNotifications, retryTimers, now) IN
          /\ ReturnTo(i, r.call, r.failed)
          /\ failedNotifications' = r.failed
          /\ retryTimers' = r.timers
          /\ UNCHANGED permission
     ELSE LET r == ShowAfterPermission(calls[i], failedNotifications,
                                       res = "granted", osThrows) IN
          /\ ReturnTo(i, r.call, r.failed)
          /\ failedNotifications' = r.failed
          /\ permission' = res
          /\ UNCHANGED retryTimers
  /\ HealthThen(calls'[i])
  /\ UNCHANGED <<now, notificationSoundLoaded, notificationSound,
                 soundLoads, hasBridge, provider, storeVars>>

\* the timer of lines 266-272 fires
AutoRetryFires(t) ==
  /\ t \in retryTimers
  /\ now >= t.fireAt
  /\ retryTimers' = retryTimers \ {t}
  /\ IF SeqHas(failedNotifications, t.id)
     THEN /\ CanStart(calls)
          /\ \E throws \in BOOLEAN :
               calls' = Append(calls, StartCall(t.data, t.gen + 1, "auto", now,
                                 failedNotifications, notificationSoundLoaded,
                                 notificationSound, throws))
          /\ activeNotifications' = Append(activeNotifications, t.data)
     ELSE UNCHANGED <<calls, activeNotifications>>
  /\ UNCHANGED <<now, failedNotifications, notificationSoundLoaded, notificationSound,
                 soundLoads, retryLoops, hasBridge, provider, permission, storeVars, subVars>>

----------------------------------------------------------------------------
(* notificationService.ts: the audio asset and the manual retry *)

\* new Audio(...): an element not referenced by the module or by a listener
FreshElement(sound, loads) ==
  CHOOSE e \in 1..(Cardinality(loads) + 2) :
    /\ e # sound
    /\ \A l \in loads : l.el # e
    /\ \A f \in 1..(e - 1) : f = sound \/ \E l \in loads : l.el = f

\* variant: the delay grows by one second with each retry
LoadRetryDelayLinear(retryCount) == (retryCount + 1) * 1000

\* lines 47 and 69
LoadRetryDelay(retryCount) == Pow2(retryCount) * 1000

\* the flag, the element and the load chains of the module
SoundState ==
  [loaded |-> notificationSoundLoaded, sound |-> notificationSound, loads |-> soundLoads]

SetSoundState(s) ==
  /\ notificationSoundLoaded' = s.loaded
  /\ notificationSound' = s.sound
  /\ soundLoads' = s.loads

\* the 'canplaythrough' listener of lines 36-39
CanPlayThrough(s, l) == [s EXCEPT !.loaded = TRUE, !.loads = @ \ {l}]

\* the 'error' listener of lines 42-58
LoadError(s, l) ==
  IF l.retryCount < MAX_RETRIES
  THEN [s EXCEPT !.loads = (@ \ {l}) \cup {[l EXCEPT !.wait = LoadRetryDelay(l.retryCount)]}]
  ELSE [loaded |-> FALSE, sound |-> 0, loads |-> s.loads \ {l}]

\* loadSound(retryCount + 1), lines 31-72, run by the timer of lines 50-52
\* or 70; when the element cannot be set up the catch block runs
LoadRetry(s, l, throws) ==
  IF ~throws
  THEN LET e == FreshElement(s.sound, s.loads \ {l}) IN
       [s EXCEPT !.sound = e,
                 !.loads = (@ \ {l}) \cup {[el |-> e, retryCount |-> l.retryCount + 1,
                                            wait |-> 0]}]
  ELSE [loaded |-> FALSE, sound |-> 0,
        loads |-> (s.loads \ {l}) \cup
                    (IF l.retryCount + 1 < MAX_RETRIES
                     THEN {[el |-> l.el, retryCount |-> l.retryCount + 1,
                            wait |-> LoadRetryDelay(l.retryCount + 1)]}
                     ELSE {})]

\* preloadNotificationAssets, lines 26-89: loadSound(0) creates an element
\* and starts its load, or its catch block (lines 62-72) runs when the
\* element cannot be set up and arms the timer of loadSound(1); a timer armed
\* by a catch block is told from the others by a number no element has
Preload(s, throws) ==
  LET e == FreshElement(s.sound, s.loads) IN
  IF ~throws
  THEN [s EXCEPT !.sound = e,
                 !.loads = @ \cup {[el |-> e, retryCount |-> 0, wait |-> 0]}]
  ELSE [loaded |-> FALSE, sound |-> 0,
        loads |-> s.loads \cup {[el |-> e, retryCount |-> 0, wait |-> LoadRetryDelay(0)]}]

\* the sound states one event of a load chain leads to
LoadSteps(s) ==
  {CanPlayThrough(s, l) : l \in {x \in s.loads : x.wait = 0}}
  \cup {LoadError(s, l) : l \in {x \in s.loads : x.wait = 0}}
  \cup {LoadRetry(s, l, throws) : l \in {x \in s.loads : x.wait > 0}, throws \in BOOLEAN}

RECURSIVE LoadReach(_, _)
LoadReach(seen, frontier) ==
  IF frontier = {} THEN seen
  ELSE LoadReach(seen \cup frontier,
                 (UNION {LoadSteps(s) : s \in frontier}) \ (seen \cup frontier))

\* line 92: the module calls preloadNotificationAssets() when it is imported
ImportStates ==
  {Preload([loaded |-> FALSE, sound |-> 0, loads |-> {}], throws) : throws \in BOOLEAN}

\* the sound states the chain started at the import can be in when the hook
\* mounts
PreMountStates == LoadReach({}, ImportStates)

\* ensureNotificationsReady of the mount effect (line 336) on such a state
MountStates ==
  {s \in PreMountStates : s.loaded}
  \cup {Preload(s, throws) : s \in {x \in PreMountStates : ~x.loaded}, throws \in BOOLEAN}

\* a load confirms 'canplaythrough'
SoundLoaded(l) ==
  /\ l \in soundLoads
  /\ l.wait = 0
  /\ SetSoundState(CanPlayThrough(SoundState, l))
  /\ UNCHANGED <<now, activeNotifications, failedNotifications, calls,
                 retryTimers, retryLoops, hasBridge, provider, permission, storeVars, subVars>>

\* a load reports 'error'
SoundLoadError(l) ==
  /\ l \in soundLoads
  /\ l.wait = 0
  /\ SetSoundState(LoadError(SoundState, l))
  /\ UNCHANGED <<now, activeNotifications, failedNotifications, calls, retryTimers,
                 retryLoops, hasBridge, provider, permission, storeVars, subVars>>

\* the timer of a load chain fires
SoundLoadRetryFires(l, throws) ==
  /\ l \in soundLoads
  /\ l.wait > 0
  /\ SetSoundState(LoadRetry(SoundState, l, throws))
  /\ UNCHANGED <<now, activeNotifications, failedNotifications, calls, retryTimers,
                 retryLoops, hasBridge, provider, permission, storeVars, subVars>>

\* preloadNotificationAssets() on the state of the module
PreloadNotificationAssets ==
  \E throws \in BOOLEAN :
    /\ Cardinality(soundLoads) < MaxLoads
    /\ SetSoundState(Preload(SoundState, throws))

\* retryFailedNotifications, lines 295-318, up to its first await: the failed
\* set is copied and cleared, and showNotification starts for the first id
\* that parses to a title and a message; sound is the element the module
\* holds when it starts.  The rest of the loop runs when the awaited
\* invocation returns (ReturnTo)
RetryFailedNotifications(sound) ==
  /\ failedNotifications' = <<>>
  /\ LET ids == SkipUnparseable(failedNotifications) IN
     IF ids = <<>>
     THEN UNCHANGED <<calls, activeNotifications, retryLoops>>
     ELSE /\ CanStart(calls)
          /\ \E throws \in BOOLEAN :
               calls' = Append(calls, StartCall(ParseFailedId(Head(ids)), 0, "manual", now,
                                 <<>>, notificationSoundLoaded, sound, throws))
          /\ activeNotifications' = Append(activeNotifications, ParseFailedId(Head(ids)))
          /\ retryLoops' = Append(retryLoops, [ids |-> Tail(ids), wait |-> Len(calls) + 1])
  /\ retryTimers' = {[t EXCEPT !.handled = @ \/ SeqHas(failedNotifications, t.id)] :
                         t \in retryTimers}

\* ensureNotificationsReady, lines 322-329: preloadNotificationAssets when the
\* sound is not confirmed loaded, then retryFailedNotifications
EnsureNotificationsReady ==
  /\ IF ~notificationSoundLoaded
     THEN PreloadNotificationAssets
     ELSE UNCHANGED <<notificationSoundLoaded, notificationSound, soundLoads>>
  /\ RetryFailedNotifications(notificationSound')

\* the application calls ensureNotificationsReady (start, resume from background)
EnsureReady ==
  /\ EnsureNotificationsReady
  /\ UNCHANGED <<now, hasBridge, provider, permission, storeVars, subVars>>

\* retryFailedNotifications called on its own: no load is started
RetryFailed ==
  /\ RetryFailedNotifications(notificationSound)
  /\ UNCHANGED <<now, notificationSoundLoaded, notificationSound, soundLoads, hasBridge,
                 provider, permission, storeVars, subVars>>

----------------------------------------------------------------------------
(* NotificationProvider (ToolsTabContent.tsx lines 82-172) and the bell *)

\* Array.prototype.splice(index, 1) and filter((_, i) => i !== index)
RemoveAt(list, index) ==
  IF index >= 0 /\ index < Len(list)
  THEN [k \in 1..(Len(list) - 1) |-> IF k <= index THEN list[k] ELSE list[k + 1]]
  ELSE list

\* clearNotification of the service, lines 283-287
clearNotification(list, index) == RemoveAt(list, index)

\* the calls clearNotification(i), ..., clearNotification(n - 1) in this order
RECURSIVE ClearEach(_, _, _)
ClearEach(list, i, n) ==
  IF i >= n THEN list ELSE ClearEach(clearNotification(list, i), i + 1, n)

\* the effect of lines 87-99 at the provider's mount: ensureNotificationsReady,
\* then Notification.requestPermission() unless the permission is granted
ProviderMount ==
  /\ ~provider.isInitialized
  /\ EnsureNotificationsReady
  /\ provider' = [provider EXCEPT
                   !.isInitialized = TRUE,
                   !.requests = IF permission \notin {"unsupported", "granted"}
                                THEN @ + 1 ELSE @]
  /\ UNCHANGED <<now, hasBridge, permission, storeVars, subVars>>

\* areBrowserNotificationsSupported called on its own, lines 102-113: it
\* requests the permission when it is neither granted nor denied
AreBrowserNotificationsSupported ==
  /\ permission = "default"
  /\ provider.requests < MaxInFlight
  /\ provider' = [provider EXCEPT !.requests = @ + 1]
  /\ UNCHANGED <<now, activeNotifications, failedNotifications, notificationSoundLoaded,
                 notificationSound, soundLoads, calls, retryTimers, retryLoops,
                 hasBridge, permission, storeVars, subVars>>

\* a Notification.requestPermission() made outside showNotification settles:
\* the user's answer when the permission was undecided, else the permission
RequestSettles(res) ==
  /\ provider.requests > 0
  /\ provider' = [provider EXCEPT !.requests = @ - 1]
  /\ permission' = IF permission = "default" THEN res ELSE permission
  /\ UNCHANGED <<now, activeNotifications, failedNotifications, notificationSoundLoaded,
                 notificationSound, soundLoads, calls, retryTimers, retryLoops,
                 hasBridge, storeVars, subVars>>

\* clearAllNotifications of the service, lines 290-292
ClearAllNotifications ==
  /\ activeNotifications' = <<>>
  /\ UNCHANGED <<now, failedNotifications, notificationSoundLoaded,
                 notificationSound, soundLoads, calls, retryTimers, retryLoops,
                 hasBridge, provider, permission, storeVars, subVars>>

\* setNotifications(list) of the provider: the list waits for the next
\* render; of several lists set before a render the last one is rendered
SetProviderList(p, list) == [p EXCEPT !.queue = <<list>>]

\* the list the provider shows once the waiting update has been rendered
ProviderView == IF provider.queue # <<>> THEN provider.queue[1] ELSE provider.notifications

\* React renders the provider with the list set last; the effect of lines
\* 86-125 runs again and arms the interval with the list of this render
ProviderRender ==
  /\ provider.queue # <<>>
  /\ provider' = [provider EXCEPT !.notifications = provider.queue[1], !.queue = <<>>]
  /\ UNCHANGED <<now, activeNotifications, failedNotifications, notificationSoundLoaded,
                 notificationSound, soundLoads, calls, retryTimers, retryLoops,
                 hasBridge, permission, storeVars, subVars>>

\* the interval of lines 102-107: its callback compares the active list of
\* the service with the list of the render that armed it (line 104) and
\* sets the active list when they differ
ProviderPoll ==
  /\ provider.isInitialized
  /\ provider' = IF activeNotifications # provider.notifications
                 THEN SetProviderList(provider, activeNotifications)
                 ELSE provider
  /\ UNCHANGED <<now, activeNotifications, failedNotifications, notificationSoundLoaded,
                 notificationSound, soundLoads, calls, retryTimers, retryLoops,
                 hasBridge, permission, storeVars, subVars>>

\* dismissNotification(index), lines 134-137: the index is cleared in the
\* service and the list of the render is filtered
DismissNotification(index) ==
  /\ activeNotifications' = clearNotification(activeNotifications, index)
  /\ provider' = SetProviderList(provider, RemoveAt(provider.notifications, index))
  /\ UNCHANGED <<now, failedNotifications, notificationSoundLoaded,
                 notificationSound, soundLoads, calls, retryTimers, retryLoops,
                 hasBridge, permission, storeVars, subVars>>

\* dismissAllNotifications, lines 139-141
DismissAllNotifications ==
  /\ provider' = [SetProviderList(provider, <<>>) EXCEPT !.dismissedAt = Len(calls)]
  /\ UNCHANGED <<now, activeNotifications, failedNotifications, notificationSoundLoaded,
                 notificationSound, soundLoads, calls, retryTimers, retryLoops,
                 hasBridge, permission, storeVars, subVars>>

\* markAllAsRead of NotificationBell.tsx, lines 24-27: dismissNotification for
\* each index of the list the bell rendered; every call filters that same
\* list (line 136) and the value set last is the one rendered
BellMarkAllAsRead ==
  LET n == Len(provider.notifications) IN
  /\ activeNotifications' = ClearEach(activeNotifications, 0, n)
  /\ provider' = IF n = 0 THEN provider
                 ELSE SetProviderList(provider, RemoveAt(provider.notifications, n - 1))
  /\ UNCHANGED <<now, failedNotifications, notificationSoundLoaded,
                 notificationSound, soundLoads, calls, retryTimers, retryLoops,
                 hasBridge, permission, storeVars, subVars>>

----------------------------------------------------------------------------
(* useNotifications: fingerprints, the Store and the background buffer *)

\* String.prototype.charCodeAt for the characters the model uses
CharCode(ch) == CASE ch = "h" -> 104 [] ch = "i" -> 105 [] ch = "o" -> 111
                  [] ch = "-" -> 45 [] OTHER -> 63

\* one round of lines 351-352 on a 32-bit value kept as two 16-bit halves:
\* ((hash << 5) - hash) + code, then hash |= 0
HashRound(h, code) ==
  LET lo == h.lo * 31 + code
      hi == h.hi * 31 + (lo \div 65536)
  IN [hi |-> hi % 65536, lo |-> lo % 65536]

RECURSIVE HashHalves(_, _)
HashHalves(text, h) ==
  IF text = <<>> THEN h ELSE HashHalves(Tail(text), HashRound(h, CharCode(Head(text))))

\* the signed 32-bit hash of lines 349-353
TextHash(text) ==
  LET h == HashHalves(text, [hi |-> 0, lo |-> 0]) IN
  IF h.hi >= 32768 THEN (h.hi - 65536) * 65536 + h.lo ELSE h.hi * 65536 + h.lo

\* generateMessageId, lines 344-356
generateMessageId(m, t) ==
  m.chatId \o <<Dash>> \o m.sender \o <<Dash>> \o m.text \o <<Dash>>
    \o NumToStr(TextHash(m.text)) \o <<"-time-">> \o NumToStr(t)

\* the localStorage item of the list: absent ("missing"), the empty string
\* ("empty"), a text JSON.parse rejects ("garbage"), or the JSON text of a
\* list ("json"); JSON.stringify(list), line 276
JsonStringify(list) == [kind |-> "json", value |-> list]

\* what getItem returns for an item that is not stored
NoItem == "(null)"

\* String(flag), line 285
BoolToString(b) == IF b THEN "true" ELSE "false"

\* DEMO_NOTIFICATIONS, lines 199-233, with Date.now() = 0 at construction
DEMO_NOTIFICATIONS ==
  << [id |-> <<"1">>, title |-> <<"t1">>, message |-> <<"m1">>, read |-> FALSE,
      timestamp |-> 0 - 1000 * 60 * 5, type |-> "system",
      chatId |-> <<>>, groupId |-> <<>>, senderName |-> <<>>],
     [id |-> <<"2">>, title |-> <<"t2">>, message |-> <<"m2">>, read |-> FALSE,
      timestamp |-> 0 - 1000 * 60 * 30, type |-> "system",
      chatId |-> <<>>, groupId |-> <<>>, senderName |-> <<>>],
     [id |-> <<"3">>, title |-> <<"t3">>, message |-> <<"m3">>, read |-> TRUE,
      timestamp |-> 0 - 1000 * 60 * 60 * 2, type |-> "system",
      chatId |-> <<>>, groupId |-> <<>>, senderName |-> <<>>],
     [id |-> <<"4">>, title |-> <<"t4">>, message |-> <<"m4">>, read |-> TRUE,
      timestamp |-> 0 - 1000 * 60 * 60 * 5, type |-> "message",
      chatId |-> <<>>, groupId |-> <<>>, senderName |-> <<"Kumar">>] >>

\* lines 236-245: the initial value of the Store
LoadNotifications(item) ==
  IF item.kind \in {"missing", "empty"} THEN DEMO_NOTIFICATIONS
  ELSE IF item.kind = "garbage" THEN DEMO_NOTIFICATIONS
  ELSE item.value

\* lines 247-255: the initial value of the sound flag
LoadPlaySound(text) == IF text # NoItem THEN text = "true" ELSE TRUE

\* the manager before the effect of line 474 has run
Unsubscribed ==
  [unsub |-> 0, live |-> {}, count |-> 0, ref |-> 0, timers |-> {}, intervals |-> 0,
   run |-> 0]

\* the events of the push source: a direct message and a group message
\* (groupName is empty when the event carries none)
MsgSet == { [chatId |-> <<"c", "1">>, sender |-> <<"u", "1">>, senderName |-> <<"Ann">>,
             text |-> <<"h", "i">>, isGroup |-> FALSE, groupName |-> <<>>],
            [chatId |-> <<"g", "1">>, sender |-> <<"u", "1">>, senderName |-> <<"Ann">>,
             text |-> <<"h", "i">>, isGroup |-> TRUE, groupName |-> <<>>] }

\* Math.random().toString(36).substring(2, 8)
RandSet == { <<"r", "1">>, <<"r", "2">> }

\* lines 384-396: the record built from a stream event; an undefined
\* groupId or chatId is the empty text
MessageNotification(m, t, r) ==
  LET sender == IF m.senderName # <<>> THEN m.senderName ELSE <<"Someone">>
      group == IF m.groupName # <<>> THEN m.groupName ELSE <<"Group">>
  IN
  [ id |-> <<"msg_">> \o NumToStr(t) \o r,
    title |-> IF m.isGroup THEN group \o <<":", " ">> \o sender ELSE sender,
    message |-> m.text,
    read |-> FALSE,
    timestamp |-> t,
    type |-> IF m.isGroup THEN "group" ELSE "message",
    groupId |-> IF m.isGroup THEN m.chatId ELSE <<>>,
    chatId |-> IF m.isGroup THEN <<>> ELSE m.chatId,
    senderName |-> m.senderName ]

\* variant: the duplicate test compares ids only
IsDuplicateById(prev, n) ==
  \E i \in 1..Len(prev) :
    /\ prev[i].message = n.message
    /\ prev[i].type = n.type
    /\ prev[i].id = n.id

\* lines 431-436: the duplicate test of the updater of addNotification
IsDuplicate(prev, n) ==
  \E i \in 1..Len(prev) :
    /\ prev[i].message = n.message
    /\ prev[i].type = n.type
    /\ (prev[i].timestamp > n.timestamp - DedupWindow \/ prev[i].id = n.id)

\* lines 429-444: the updater of addNotification
AddUpdater(prev, n) == IF IsDuplicate(prev, n) THEN prev ELSE <<n>> \o prev

\* lines 321-324: the updater of the flush; pending is the buffer as it is
\* when the updater runs
FlushUpdater(prev, pending) == pending \o prev

\* variant: the updater flips the flag of the record
MarkAsReadToggle(prev, id) ==
  [i \in 1..Len(prev) |-> IF prev[i].id = id THEN [prev[i] EXCEPT !.read = ~@] ELSE prev[i]]

\* lines 550-552: the updater of markAsRead
MarkAsReadUpdater(prev, id) ==
  [i \in 1..Len(prev) |-> IF prev[i].id = id THEN [prev[i] EXCEPT !.read = TRUE] ELSE prev[i]]

\* variant: the updater keeps the unread records only
MarkAllAsReadDropping(prev) ==
  [i \in 1..Len(SelectSeq(prev, LAMBDA n : ~n.read)) |->
     [SelectSeq(prev, LAMBDA n : ~n.read)[i] EXCEPT !.read = TRUE]]

\* line 557: the updater of markAllAsRead
MarkAllAsReadUpdater(prev) ==
  [i \in 1..Len(prev) |-> [prev[i] EXCEPT !.read = TRUE]]

\* line 562: the updater of removeNotification
RemoveUpdater(prev, id) == SelectSeq(prev, LAMBDA n : n.id # id)

\* one queued update applied to the state it is given
ApplyUpdate(prev, u, pending) ==
  CASE u.kind = "add" -> AddUpdater(prev, u.n)
    [] u.kind = "flush" -> FlushUpdater(prev, pending)
    [] u.kind = "markRead" -> MarkAsReadUpdater(prev, u.id)
    [] u.kind = "markAll" -> MarkAllAsReadUpdater(prev)
    [] u.kind = "remove" -> RemoveUpdater(prev, u.id)
    [] u.kind = "set" -> u.value
    [] u.kind = "sound" -> prev

RECURSIVE ApplyQueue(_, _, _)
ApplyQueue(prev, queue, pending) ==
  IF queue = <<>> THEN prev
  ELSE ApplyQueue(ApplyUpdate(prev, Head(queue), pending), Tail(queue), pending)

\* the Store once every queued update has been applied
StoreView == ApplyQueue(notifications, updateQueue, pendingNotificationsRef)

\* the render gets a new array from the queue: every updater but the one of
\* addNotification, which returns the array it was given for a duplicate,
\* builds one; the effect of line 274 runs when the array is a new one
RECURSIVE NewArray(_, _, _)
NewArray(prev, queue, pending) ==
  IF queue = <<>> THEN FALSE
  ELSE LET u == Head(queue) IN
       IF u.kind = "sound" \/ (u.kind = "add" /\ AddUpdater(prev, u.n) = prev)
       THEN NewArray(prev, Tail(queue), pending)
       ELSE TRUE

\* the sound flag once every queued setPlaySound has been applied
RECURSIVE FlagQueue(_, _)
FlagQueue(flag, queue) ==
  IF queue = <<>> THEN flag
  ELSE FlagQueue(IF Head(queue).kind = "sound" THEN Head(queue).flag ELSE flag, Tail(queue))

FlagView == FlagQueue(playSound, updateQueue)

\* setNotifications(updater) runs the updater at once when the hook's fiber
\* and its alternate have no pending lanes (React's eager state); otherwise
\* the updater runs at the next render
EagerState == updateQueue = <<>> /\ ~alternateLanes

\* lines 421-471: addNotification of a record that carries id and timestamp;
\* an eager updater that returns the state it was given schedules nothing;
\* the delivery through the service starts when the sound flag is set
AddNotificationWith(n, soundFlag) ==
  /\ updateQueue' = IF EagerState /\ AddUpdater(notifications, n) = notifications
                    THEN updateQueue
                    ELSE Append(updateQueue, [kind |-> "add", n |-> n])
  /\ IF soundFlag
     THEN /\ CanStart(calls)
          /\ \E throws \in BOOLEAN :
               calls' = Append(calls,
                StartCall([title |-> IF n.title # <<>> THEN n.title ELSE <<"Notification">>,
                           message |-> n.message],
                          0, "hook", now, failedNotifications,
                          notificationSoundLoaded, notificationSound, throws))
          /\ activeNotifications' = Append(activeNotifications,
                [title |-> IF n.title # <<>> THEN n.title ELSE <<"Notification">>,
                 message |-> n.message])
     ELSE UNCHANGED <<calls, activeNotifications>>

\* the addNotification of the last render, line 471: the one the hook returns
AddNotification(n) == AddNotificationWith(n, playSound)

\* the arguments a caller passes to addNotification: without id and
\* timestamp; with the id of a stored record and a text of its own; with the
\* text of a stored record and a timestamp of its own, 10 minutes back
\* (an empty id and a timestamp of 0 are absent for lines 423 and 426)
ManualSet ==
  { [id |-> <<>>, title |-> <<"A">>, message |-> <<"a", "l">>, type |-> "system",
     timestamp |-> 0],
    [id |-> <<"1">>, title |-> <<"A">>, message |-> <<"a", "l">>, type |-> "system",
     timestamp |-> 0],
    [id |-> <<>>, title |-> <<"t1">>, message |-> <<"m1">>, type |-> "system",
     timestamp |-> 0 - 600000] }

\* lines 422-427: the record addNotification builds from its argument
ManualRecord(inp, t, r) ==
  [ id |-> IF inp.id # <<>> THEN inp.id ELSE <<"manual_">> \o NumToStr(t) \o r,
    title |-> inp.title,
    message |-> inp.message,
    read |-> FALSE,
    timestamp |-> IF inp.timestamp # 0 THEN inp.timestamp ELSE t,
    type |-> inp.type,
    chatId |-> <<>>, groupId |-> <<>>,
    senderName |-> <<>> ]

\* lines 572-579: the record of testNotificationSystem
TestRecord(t) ==
  [ id |-> <<"test_">> \o NumToStr(t),
    title |-> <<"Notification Test">>,
    message |-> <<"This is a test notification to verify the system is working.">>,
    read |-> FALSE,
    timestamp |-> t,
    type |-> "system",
    chatId |-> <<>>, groupId |-> <<>>,
    senderName |-> <<>> ]

\* a consumer of the hook calls addNotification
ManualAdd(inp, r) ==
  /\ mounted
  /\ Len(updateQueue) < MaxQueue
  /\ Len(StoreView) + Len(pendingNotificationsRef) < MaxStore
  /\ AddNotification(ManualRecord(inp, now, r))
  /\ UNCHANGED <<now, failedNotifications, notificationSoundLoaded, notificationSound,
                 soundLoads, retryTimers, retryLoops, hasBridge, provider, permission,
                 notifications, alternateLanes, pendingNotificationsRef, isAppVisibleRef,
                 visibilityState, processedMessageIdsRef, playSound, listenerPlaySound, directRecs,
                 storedNotifications, storedSound, storageState, subVars>>

\* testNotificationSystem, lines 571-583
TestNotificationSystem ==
  /\ mounted
  /\ Len(updateQueue) < MaxQueue
  /\ Len(StoreView) + Len(pendingNotificationsRef) < MaxStore
  /\ AddNotification(TestRecord(now))
  /\ UNCHANGED <<now, failedNotifications, notificationSoundLoaded, notificationSound,
                 soundLoads, retryTimers, retryLoops, hasBridge, provider, permission,
                 notifications, alternateLanes, pendingNotificationsRef, isAppVisibleRef,
                 visibilityState, processedMessageIdsRef, playSound, listenerPlaySound, directRecs,
                 storedNotifications, storedSound, storageState, subVars>>

\* setNotifications with an updater or a value that is a new array: queued
Enqueue(u) ==
  /\ mounted
  /\ Len(updateQueue) < MaxQueue
  /\ updateQueue' = Append(updateQueue, u)
  /\ UNCHANGED <<now, svcVars, notifications, alternateLanes, pendingNotificationsRef,
                 isAppVisibleRef, visibilityState, processedMessageIdsRef, playSound,
                 listenerPlaySound, directRecs, storedNotifications, storedSound, storageState, subVars>>

\* lines 549-553
MarkAsRead(id) == Enqueue([kind |-> "markRead", id |-> id])

\* lines 556-558
MarkAllAsRead == Enqueue([kind |-> "markAll"])

\* lines 561-563
RemoveNotification(id) == Enqueue([kind |-> "remove", id |-> id])

\* lines 566-568
ClearNotifications == Enqueue([kind |-> "set", value |-> <<>>])

\* setPlaySound(b): the update of the flag is queued for the next render;
\* when the fiber has no update pending and b is the flag of the render,
\* React drops it.  The flag the closures read and the storage change at the
\* render; setupMessageListener (deps of line 418) and the effect of line 474
\* (deps of line 546) are not created again
SetPlaySound(b) ==
  /\ mounted
  /\ Len(updateQueue) < MaxQueue
  /\ ~(EagerState /\ b = playSound)
  /\ updateQueue' = Append(updateQueue, [kind |-> "sound", flag |-> b])
  /\ UNCHANGED <<now, svcVars, notifications, alternateLanes, pendingNotificationsRef,
                 isAppVisibleRef, visibilityState, processedMessageIdsRef, playSound,
                 listenerPlaySound, directRecs, storedNotifications, storedSound,
                 storageState, subVars>>

\* the callback given to onMessage, lines 368-409; its addNotification is
\* the one of the render in which setupMessageListener was created
MessageCallback(m, r) ==
  /\ IF generateMessageId(m, now) \in processedMessageIdsRef
     THEN UNCHANGED <<processedMessageIdsRef, updateQueue, calls, activeNotifications,
                      pendingNotificationsRef, directRecs, reconnectCountRef, failRun>>
     ELSE /\ Cardinality(processedMessageIdsRef) < MaxEvents
          /\ processedMessageIdsRef' = processedMessageIdsRef \cup {generateMessageId(m, now)}
          /\ IF isAppVisibleRef
             THEN /\ AddNotificationWith(MessageNotification(m, now, r), listenerPlaySound)
                  /\ directRecs' = directRecs \cup {MessageNotification(m, now, r)}
                  /\ UNCHANGED pendingNotificationsRef
             ELSE /\ pendingNotificationsRef' =
                       Append(pendingNotificationsRef, MessageNotification(m, now, r))
                  /\ UNCHANGED <<updateQueue, calls, activeNotifications, directRecs>>
          /\ reconnectCountRef' = 0
          /\ failRun' = 0
  /\ UNCHANGED <<now, failedNotifications, notificationSoundLoaded, notificationSound,
                 soundLoads, retryTimers, retryLoops, hasBridge, provider, permission,
                 notifications, alternateLanes, isAppVisibleRef, visibilityState,
                 playSound, listenerPlaySound, storedNotifications, storedSound, storageState, unsubscribeRef, liveSubs,
                 retryTimeoutRef, reconnectTimers, checkIntervals, mounted, staleListeners>>

\* the push source calls the callback of a handle it holds
OnMessage(m, r) ==
  /\ liveSubs # {}
  /\ MessageCallback(m, r)

\* the handles returned to the instances that were replaced
RECURSIVE StaleHandles(_)
StaleHandles(list) ==
  IF list = <<>> THEN 0 ELSE Head(list).handles + StaleHandles(Tail(list))

\* the handles returned to the present instance of the hook: every handle
\* returned started one interval (line 508) and no interval is ever cleared
HandlesReturned == checkIntervals - StaleHandles(staleListeners)

\* the handles of the present instance that have been invoked since
CancelledSubs == HandlesReturned - Cardinality(liveSubs)

\* the callback of lines 368-409 of an instance that was replaced: it reads
\* the refs of its own instance; its addNotification sets the state of an
\* unmounted component, which React ignores, and delivers through the
\* service when the sound flag of its render was set
StaleCallback(k, m, r) ==
  LET st == staleListeners[k] IN
  /\ IF generateMessageId(m, now) \in st.processed
     THEN UNCHANGED <<staleListeners, calls, activeNotifications>>
     ELSE /\ Cardinality(st.processed) < MaxEvents
          /\ staleListeners' =
               [staleListeners EXCEPT ![k].processed = @ \cup {generateMessageId(m, now)}]
          /\ IF st.visible /\ st.playSound
             THEN /\ CanStart(calls)
                  /\ \E throws \in BOOLEAN :
                       calls' = Append(calls,
                        StartCall([title |-> MessageNotification(m, now, r).title,
                                   message |-> m.text],
                                  0, "hook", now, failedNotifications,
                                  notificationSoundLoaded, notificationSound, throws))
                  /\ activeNotifications' = Append(activeNotifications,
                        [title |-> MessageNotification(m, now, r).title,
                         message |-> m.text])
             ELSE UNCHANGED <<calls, activeNotifications>>
  /\ UNCHANGED <<now, failedNotifications, notificationSoundLoaded, notificationSound,
                 soundLoads, retryTimers, retryLoops, hasBridge, provider, permission,
                 storeVars, unsubscribeRef, liveSubs, reconnectCountRef, retryTimeoutRef,
                 reconnectTimers, checkIntervals, mounted, failRun>>

\* the push source calls the callback of a handle that was invoked (by the
\* cleanup, or by setupMessageListener before it subscribed again), a message
\* that was already on its way: a handle of the present instance, mounted or
\* cleaned up
LateMessage(m, r) ==
  /\ CancelledSubs > 0
  /\ MessageCallback(m, r)

\* the same for a handle of an instance that a new mount has replaced
LateMessageReplaced(m, r) ==
  \E k \in 1..Len(staleListeners) : StaleCallback(k, m, r)

\* lines 318-327: the buffer is handed to setNotifications and cleared.  The
\* updater reads the ref when React runs it: at once when the state is
\* computed eagerly, otherwise at the next render, after the clearing.
FlushPending ==
  IF Len(pendingNotificationsRef) > 0
  THEN /\ updateQueue' = Append(updateQueue,
            IF EagerState
            THEN [kind |-> "set",
                  value |-> FlushUpdater(notifications, pendingNotificationsRef)]
            ELSE [kind |-> "flush"])
       /\ pendingNotificationsRef' = <<>>
  ELSE UNCHANGED <<updateQueue, pendingNotificationsRef>>

\* ensureNotificationsReady() called by each of the handlers of one event:
\* the second call starts another load when the sound is still not
\* confirmed and finds the failed set empty
EnsureNotificationsReadyTimes(n) ==
  \E t1 \in BOOLEAN, t2 \in BOOLEAN :
    LET s1 == IF notificationSoundLoaded THEN SoundState ELSE Preload(SoundState, t1)
        s2 == IF n < 2 \/ s1.loaded THEN s1 ELSE Preload(s1, t2)
    IN /\ notificationSoundLoaded \/ Cardinality(soundLoads) + n <= MaxLoads
       /\ SetSoundState(s2)
       /\ RetryFailedNotifications(s1.sound)

\* a visibilitychange event of the document and its handlers: the one of the
\* hook, lines 309-331, while the hook is mounted, and the one of the
\* provider, lines 110-118, while the provider is mounted
VisibilityChange ==
  LET hookRuns == mounted /\ ~visibilityState /\ ~isAppVisibleRef
      providerRuns == provider.isInitialized /\ ~visibilityState
  IN
  /\ visibilityState' = ~visibilityState
  /\ IF hookRuns \/ providerRuns
     THEN /\ EnsureNotificationsReadyTimes(IF hookRuns /\ providerRuns THEN 2 ELSE 1)
          /\ UNCHANGED <<hasBridge, permission>>
     ELSE UNCHANGED <<activeNotifications, failedNotifications, notificationSoundLoaded,
                      notificationSound, soundLoads, calls, retryTimers, retryLoops,
                      hasBridge, permission>>
  /\ IF hookRuns THEN FlushPending ELSE UNCHANGED <<updateQueue, pendingNotificationsRef>>
  /\ provider' = IF providerRuns
                 THEN SetProviderList(provider, activeNotifications')
                 ELSE provider
  /\ isAppVisibleRef' = IF mounted THEN visibilityState' ELSE isAppVisibleRef
  /\ UNCHANGED <<now, notifications, alternateLanes, processedMessageIdsRef, playSound,
                 listenerPlaySound, directRecs, storedNotifications, storedSound, storageState, subVars>>

\* React renders the hook: the queued updates run in order.  When a state
\* changed, the fiber that was current keeps the lanes the updates were
\* scheduled with; when every update returned the state it was given the
\* render bails out and both fibers are clean afterwards.  The effect of
\* lines 274-280 writes the list when the render got a new array and the
\* effect of lines 283-289 writes the flag when it changed, each inside a
\* try block: a setItem that throws leaves the item as it was
Render ==
  /\ mounted
  /\ updateQueue # <<>>
  /\ notifications' = StoreView
  /\ playSound' = FlagView
  /\ updateQueue' = <<>>
  /\ alternateLanes' = (NewArray(notifications, updateQueue, pendingNotificationsRef)
                         \/ FlagView # playSound)
  /\ storedNotifications' =
       IF NewArray(notifications, updateQueue, pendingNotificationsRef) /\ storageState = "ok"
       THEN JsonStringify(StoreView)
       ELSE storedNotifications
  /\ storedSound' = IF FlagView # playSound /\ storageState = "ok"
                    THEN BoolToString(FlagView)
                    ELSE storedSound
  /\ UNCHANGED <<now, svcVars, pendingNotificationsRef, isAppVisibleRef, visibilityState,
                 processedMessageIdsRef, listenerPlaySound, directRecs, storageState, subVars>>

\* the component renders again with no update of the hook queued (its parent
\* rendered): both fibers are clean afterwards
Rerender ==
  /\ updateQueue = <<>>
  /\ alternateLanes
  /\ alternateLanes' = FALSE
  /\ UNCHANGED <<now, svcVars, notifications, updateQueue, pendingNotificationsRef,
                 isAppVisibleRef, visibilityState, processedMessageIdsRef, playSound,
                 listenerPlaySound, directRecs, storedNotifications, storedSound, storageState, subVars>>

----------------------------------------------------------------------------
(* useNotifications: the events of the subscription manager *)

\* a retry timer of lines 489-491 or 498-501 fires and runs setupListener
ReconnectTimerFires(t, outcome) ==
  /\ t \in reconnectTimers
  /\ SetSubState(SetupListener([SubState EXCEPT !.timers = reconnectTimers \ {t}], outcome))
  /\ UNCHANGED <<now, svcVars, storeVars, mounted, staleListeners>>

\* a tick of the interval of lines 508-521: testNotification starts
HealthCheckTick ==
  /\ checkIntervals > 0
  /\ CanStart(calls)
  /\ \E throws \in BOOLEAN :
       calls' = Append(calls, StartCall(TestData, 0, "health", now, failedNotifications,
                                      notificationSoundLoaded, notificationSound, throws))
  /\ activeNotifications' = Append(activeNotifications, TestData)
  /\ UNCHANGED <<now, failedNotifications, notificationSoundLoaded, notificationSound,
                 soundLoads, retryTimers, retryLoops, hasBridge, provider, permission,
                 storeVars, subVars>>

\* the hook is mounted: the initial values of lines 236-255 (the seed list
\* and true when getItem throws), fresh refs, the effects of lines 274-289
\* (the values are written back unless setItem throws), of line 336 and
\* of line 532; intervals and timers left by an earlier mount stay, and so
\* do the refs of the instance before, which the callbacks of its handles read
Mount(outcome) ==
  /\ ~mounted
  /\ checkIntervals < MaxIntervals
  /\ mounted' = TRUE
  /\ staleListeners' =
       IF HandlesReturned > 0
       THEN Append(staleListeners,
                   [processed |-> processedMessageIdsRef, visible |-> isAppVisibleRef,
                    playSound |-> listenerPlaySound, handles |-> HandlesReturned])
       ELSE staleListeners
  /\ notifications' = IF storageState = "disabled" THEN DEMO_NOTIFICATIONS
                      ELSE LoadNotifications(storedNotifications)
  /\ playSound' = IF storageState = "disabled" THEN TRUE ELSE LoadPlaySound(storedSound)
  /\ listenerPlaySound' = playSound'
  /\ storedNotifications' = IF storageState = "ok" THEN JsonStringify(notifications')
                            ELSE storedNotifications
  /\ storedSound' = IF storageState = "ok" THEN BoolToString(playSound') ELSE storedSound
  /\ updateQueue' = <<>>
  /\ alternateLanes' = FALSE
  /\ pendingNotificationsRef' = <<>>
  /\ isAppVisibleRef' = TRUE
  /\ processedMessageIdsRef' = {}
  /\ EnsureNotificationsReady
  /\ UNCHANGED <<hasBridge, provider, permission>>
  /\ SetSubState(SetupListener([Unsubscribed EXCEPT !.live = liveSubs,
                                                     !.timers = reconnectTimers,
                                                     !.intervals = checkIntervals],
                                outcome))
  /\ UNCHANGED <<now, visibilityState, directRecs, storageState>>

\* variant: the cleanup clears the retry timer and leaves the handle uninvoked
UnmountKeepsHandle ==
  /\ mounted
  /\ mounted' = FALSE
  /\ liveSubs' = liveSubs
  /\ unsubscribeRef' = 0
  /\ reconnectTimers' = {t \in reconnectTimers : t.id # retryTimeoutRef}
  /\ retryTimeoutRef' = 0
  /\ UNCHANGED <<now, svcVars, storeVars, reconnectCountRef, checkIntervals, staleListeners,
                 failRun>>

\* the cleanup of the effect, lines 535-545
Unmount ==
  /\ mounted
  /\ mounted' = FALSE
  /\ liveSubs' = IF unsubscribeRef # 0 THEN liveSubs \ {unsubscribeRef} ELSE liveSubs
  /\ unsubscribeRef' = 0
  /\ reconnectTimers' = {t \in reconnectTimers : t.id # retryTimeoutRef}
  /\ retryTimeoutRef' = 0
  /\ UNCHANGED <<now, svcVars, storeVars, reconnectCountRef, checkIntervals, staleListeners,
                 failRun>>

\* the environment: the quota of localStorage is used up or the storage is
\* switched off while the hook runs; a storage that failed stays so, hence
\* storageState = "ok" tells that no access has thrown
StorageBreaks(mode) ==
  /\ storageState = "ok"
  /\ mode \in {"full", "disabled"}
  /\ storageState' = mode
  /\ UNCHANGED <<now, svcVars, notifications, updateQueue, alternateLanes,
                 pendingNotificationsRef, isAppVisibleRef, visibilityState,
                 processedMessageIdsRef, playSound, listenerPlaySound, directRecs,
                 storedNotifications, storedSound, subVars>>

----------------------------------------------------------------------------
(* Time *)

\* the instants at which the model reads the clock
StoreClock == {0, 50, 5000}
DeliverClock == {0, 1000, 2000}

Advance(clock) ==
  /\ \E t \in clock : t > now /\ now' = t
  /\ UNCHANGED <<svcVars, storeVars, subVars>>

TickStore == Advance(StoreClock)
TickDeliver == Advance(DeliverClock)

----------------------------------------------------------------------------
(* Initial states: the service module imported, the hook mounted *)

PermissionStates == {"unsupported", "default", "granted", "denied"}

\* the service after import (line 92) and the mount effect (line 336): the
\* sound was confirmed loaded in between, or the mount started a second load
\* chain while the first was loading, waited for a retry or had given up
InitService ==
  /\ activeNotifications = <<>>
  /\ failedNotifications = <<>>
  /\ calls = <<>>
  /\ retryTimers = {}
  /\ retryLoops = <<>>
  /\ hasBridge \in BOOLEAN
  /\ provider = [notifications |-> <<>>, queue |-> <<>>, dismissedAt |-> 0 - 1,
                isInitialized |-> FALSE, requests |-> 0]
  /\ permission \in PermissionStates
  /\ \E s \in MountStates :
       /\ notificationSoundLoaded = s.loaded
       /\ notificationSound = s.sound
       /\ soundLoads = s.loads

\* the hook after its first render and its mount effects
InitHook ==
  /\ notifications = DEMO_NOTIFICATIONS
  /\ updateQueue = <<>>
  /\ alternateLanes = FALSE
  /\ pendingNotificationsRef = <<>>
  /\ isAppVisibleRef = TRUE
  /\ visibilityState = TRUE
  /\ processedMessageIdsRef = {}
  /\ playSound \in BOOLEAN
  /\ listenerPlaySound = playSound
  /\ directRecs = {}
  /\ storedNotifications = JsonStringify(DEMO_NOTIFICATIONS)
  /\ storedSound = BoolToString(playSound)
  /\ storageState = "ok"
  /\ mounted = TRUE

\* the first setupListener() of line 532
InitSubscription ==
  \E o \in SubscribeOutcomes :
    LET s == SetupListener(Unsubscribed, o) IN
    /\ unsubscribeRef = s.unsub
    /\ liveSubs = s.live
    /\ reconnectCountRef = s.count
    /\ retryTimeoutRef = s.ref
    /\ reconnectTimers = s.timers
    /\ checkIntervals = s.intervals
    /\ staleListeners = <<>>
    /\ failRun = s.run

Init ==
  /\ now = 0
  /\ InitService
  /\ InitHook
  /\ InitSubscription

\* the dispatcher: deliveries, their sound and channel steps, their retries;
\* the first load of the import was confirmed, or its chain gave up before
\* the mount, which started the load again
InitDeliver ==
  /\ Init
  /\ notificationSound = 1
  /\ soundLoads \subseteq {[el |-> 1, retryCount |-> 0, wait |-> 0]}
  /\ unsubscribeRef # 0
  /\ playSound

NextDeliver ==
  \/ \E d \in DataSet : Deliver(d)
  \/ \E i \in 1..Len(calls), ok \in BOOLEAN, bt \in BOOLEAN, ot \in BOOLEAN :
       PlaySettles(i, ok, bt, ot)
  \/ \E i \in 1..Len(calls) : SoundRetryFires(i)
  \/ \E i \in 1..Len(calls), res \in {"granted", "denied", "default", "reject"},
        ot \in BOOLEAN : PermissionSettles(i, res, ot)
  \/ \E t \in retryTimers : AutoRetryFires(t)
  \/ EnsureReady
  \/ TickDeliver

SpecDeliver == InitDeliver /\ [][NextDeliver]_vars

\* the hook's stream path with the sound flag set, and the deliveries it starts
DirectMessage == CHOOSE m \in MsgSet : ~m.isGroup
DirectRand == CHOOSE r \in RandSet : TRUE

NextHookDeliver ==
  \/ OnMessage(DirectMessage, DirectRand)
  \/ Render
  \/ \E i \in 1..Len(calls), ok \in BOOLEAN, bt \in BOOLEAN, ot \in BOOLEAN :
       PlaySettles(i, ok, bt, ot)
  \/ \E i \in 1..Len(calls) : SoundRetryFires(i)
  \/ \E i \in 1..Len(calls), res \in {"granted", "denied", "default", "reject"},
        ot \in BOOLEAN : PermissionSettles(i, res, ot)
  \/ \E t \in retryTimers : AutoRetryFires(t)
  \/ TickDeliver

SpecHookDeliver == InitDeliver /\ [][NextHookDeliver]_vars

\* the Store and the background buffer under stream events
InitStore ==
  /\ Init
  /\ unsubscribeRef # 0
  /\ notificationSoundLoaded
  /\ notificationSound = 1
  /\ ~playSound
  /\ ~hasBridge
  /\ permission = "denied"

NextStore ==
  \/ \E m \in MsgSet, r \in RandSet : OnMessage(m, r)
  \/ VisibilityChange
  \/ Render
  \/ Rerender
  \/ TickStore

SpecStore == InitStore /\ [][NextStore]_vars

\* what the storage can hold when the hook starts: nothing, an empty or an
\* unparseable text, a list saved by an earlier run; no flag, a saved flag, a
\* text that is neither 'true' nor 'false'
StoredListSet ==
  { [kind |-> "missing", value |-> <<>>], [kind |-> "empty", value |-> <<>>],
    [kind |-> "garbage", value |-> <<>>], JsonStringify(<<>>),
    JsonStringify(<<DEMO_NOTIFICATIONS[1]>>) }

StoredFlagSet == { NoItem, "true", "false", "yes" }

\* localStorage works, its quota is used up, or it is disabled
StorageStates == { "ok", "full", "disabled" }

\* the service imported and the sound loaded, the hook not yet mounted
InitStart ==
  /\ now = 0
  /\ InitService
  /\ notificationSoundLoaded
  /\ notificationSound = 1
  /\ ~hasBridge
  /\ permission = "denied"
  /\ notifications = <<>>
  /\ updateQueue = <<>>
  /\ alternateLanes = FALSE
  /\ pendingNotificationsRef = <<>>
  /\ isAppVisibleRef = TRUE
  /\ visibilityState = TRUE
  /\ processedMessageIdsRef = {}
  /\ playSound = TRUE
  /\ listenerPlaySound = TRUE
  /\ directRecs = {}
  /\ storedNotifications \in StoredListSet
  /\ storedSound \in StoredFlagSet
  /\ storageState \in StorageStates
  /\ unsubscribeRef = 0
  /\ liveSubs = {}
  /\ reconnectCountRef = 0
  /\ retryTimeoutRef = 0
  /\ reconnectTimers = {}
  /\ checkIntervals = 0
  /\ mounted = FALSE
  /\ staleListeners = <<>>
  /\ failRun = 0

NextStart ==
  \/ \E o \in SubscribeOutcomes : Mount(o)
  \/ MarkAllAsRead
  \/ ClearNotifications
  \/ Render
  \/ Unmount
  \/ LateMessage(DirectMessage, DirectRand)
  \/ LateMessageReplaced(DirectMessage, DirectRand)

SpecStart == InitStart /\ [][NextStart]_vars

\* the Store under the adds of its consumers and of the stream
OpsClock == {0, 5000}

TickOps == Advance(OpsClock)

NextAdd ==
  \/ \E inp \in ManualSet : ManualAdd(inp, DirectRand)
  \/ TestNotificationSystem
  \/ OnMessage(DirectMessage, DirectRand)
  \/ VisibilityChange
  \/ Render
  \/ Rerender
  \/ TickOps

SpecAdd == InitStore /\ [][NextAdd]_vars

\* the Store under the read, remove and clear operations of its consumers:
\* the ids they pass are those of an unread and of a read stored record, and
\* one the Store never held
IdSet == { <<"1">>, <<"4">>, <<"9">> }

NextMark ==
  \/ \E id \in IdSet : MarkAsRead(id)
  \/ MarkAllAsRead
  \/ \E id \in IdSet : RemoveNotification(id)
  \/ ClearNotifications
  \/ TestNotificationSystem
  \/ Render

SpecMark == InitStore /\ [][NextMark]_vars

\* the Store under its mutations, the cleanup of the hook and a new start
NextPersist ==
  \/ TestNotificationSystem
  \/ \E id \in IdSet : MarkAsRead(id)
  \/ MarkAllAsRead
  \/ \E id \in IdSet : RemoveNotification(id)
  \/ ClearNotifications
  \/ Render
  \/ Unmount
  \/ Mount("handle")
  \/ \E mode \in {"full", "disabled"} : StorageBreaks(mode)

SpecPersist == InitStore /\ [][NextPersist]_vars

\* the sound flag switched at run time, the adds and their deliveries
InitFlag ==
  /\ Init
  /\ unsubscribeRef # 0
  /\ notificationSoundLoaded
  /\ notificationSound = 1
  /\ ~hasBridge
  /\ permission = "denied"

NextFlag ==
  \/ \E b \in BOOLEAN : SetPlaySound(b)
  \/ OnMessage(DirectMessage, DirectRand)
  \/ TestNotificationSystem
  \/ Render
  \/ \E i \in 1..Len(calls), ok \in BOOLEAN, bt \in BOOLEAN, ot \in BOOLEAN :
       PlaySettles(i, ok, bt, ot)
  \/ \E i \in 1..Len(calls) : SoundRetryFires(i)
  \/ TickDeliver

SpecFlag == InitFlag /\ [][NextFlag]_vars

\* the provider, its poll of the service and the bell
\* the data of the provider's testNotificationSystem, lines 143-159
ProviderTestData ==
  [title |-> <<"Test Notification">>, message |-> <<"Testing the notification system">>]

ProviderData == DataSet \cup {ProviderTestData}

NextProvider ==
  \/ \E d \in ProviderData : Deliver(d)
  \/ \E i \in 1..Len(calls), ok \in BOOLEAN, bt \in BOOLEAN, ot \in BOOLEAN :
       PlaySettles(i, ok, bt, ot)
  \/ \E i \in 1..Len(calls) : SoundRetryFires(i)
  \/ ProviderPoll
  \/ \E index \in 0..(MaxCalls - 1) : DismissNotification(index)
  \/ DismissAllNotifications
  \/ BellMarkAllAsRead
  \/ ClearAllNotifications
  \/ ProviderMount
  \/ ProviderRender
  \/ VisibilityChange
  \/ \E res \in {"granted", "denied", "default"} : RequestSettles(res)

\* the provider is mounted with the hook running and the sound confirmed
InitProvider ==
  /\ Init
  /\ notificationSoundLoaded
  /\ notificationSound = 1
  /\ ~hasBridge
  /\ permission = "denied"
  /\ ~playSound
  /\ unsubscribeRef # 0

SpecProvider == InitProvider /\ [][NextProvider]_vars

\* the permission requests of the provider's mount, of a direct call of
\* areBrowserNotificationsSupported and of the deliveries, the permission
\* undecided at the start
InitPermission ==
  /\ InitDeliver
  /\ notificationSoundLoaded
  /\ notificationSound = 1
  /\ ~hasBridge
  /\ permission = "default"

NextPermission ==
  \/ ProviderMount
  \/ AreBrowserNotificationsSupported
  \/ \E res \in {"granted", "denied", "default"} : RequestSettles(res)
  \/ \E d \in DataSet : Deliver(d)
  \/ \E i \in 1..Len(calls), ok \in BOOLEAN, bt \in BOOLEAN, ot \in BOOLEAN :
       PlaySettles(i, ok, bt, ot)
  \/ \E i \in 1..Len(calls) : SoundRetryFires(i)
  \/ \E i \in 1..Len(calls), res \in {"granted", "denied", "default", "reject"},
        ot \in BOOLEAN : PermissionSettles(i, res, ot)

SpecPermission == InitPermission /\ [][NextPermission]_vars

\* the manual retry of failed deliveries whose texts contain the delimiter
ParseData ==
  { [title |-> <<"T">>, message |-> <<"M">>],
    [title |-> <<"T">>, message |-> <<"x", "-", "y">>],
    [title |-> <<"A", "-", "B">>, message |-> <<"M">>] }

InitParse ==
  /\ InitDeliver
  /\ notificationSoundLoaded
  /\ notificationSound = 1
  /\ ~hasBridge
  /\ permission = "default"

NextParse ==
  \/ \E d \in ParseData : Deliver(d)
  \/ \E i \in 1..Len(calls), ok \in BOOLEAN, bt \in BOOLEAN, ot \in BOOLEAN :
       PlaySettles(i, ok, bt, ot)
  \/ \E i \in 1..Len(calls) : SoundRetryFires(i)
  \/ \E i \in 1..Len(calls), res \in {"granted", "denied", "default", "reject"},
        ot \in BOOLEAN : PermissionSettles(i, res, ot)
  \/ RetryFailed
  \/ TickDeliver

SpecParse == InitParse /\ [][NextParse]_vars

\* the subscription manager
NextSub ==
  \/ \E t \in reconnectTimers, o \in SubscribeOutcomes : ReconnectTimerFires(t, o)
  \/ HealthCheckTick
  \/ \E m \in MsgSet, r \in RandSet : OnMessage(m, r)
  \/ Render
  \/ Unmount

InitSub ==
  /\ Init
  /\ notificationSoundLoaded
  /\ notificationSound = 1
  /\ ~playSound
  /\ ~hasBridge
  /\ permission = "denied"

SpecSub == InitSub /\ [][NextSub]_vars

\* the manager before and after its cleanup, with the callbacks that fire late
NextLate ==
  \/ \E t \in reconnectTimers, o \in SubscribeOutcomes : ReconnectTimerFires(t, o)
  \/ HealthCheckTick
  \/ \E i \in 1..Len(calls), ok \in BOOLEAN, bt \in BOOLEAN, ot \in BOOLEAN :
       PlaySettles(i, ok, bt, ot)
  \/ \E i \in 1..Len(calls) : SoundRetryFires(i)
  \/ OnMessage(DirectMessage, DirectRand)
  \/ LateMessage(DirectMessage, DirectRand)
  \/ VisibilityChange
  \/ Unmount
  \/ TickStore

SpecLate == InitSub /\ [][NextLate]_vars

\* the manager under retry timers, health checks, cleanup and a new mount
NextResub ==
  \/ \E t \in reconnectTimers, o \in SubscribeOutcomes : ReconnectTimerFires(t, o)
  \/ HealthCheckTick
  \/ \E i \in 1..Len(calls), ok \in BOOLEAN, bt \in BOOLEAN, ot \in BOOLEAN :
       PlaySettles(i, ok, bt, ot)
  \/ \E i \in 1..Len(calls) : SoundRetryFires(i)
  \/ Unmount
  \/ \E o \in SubscribeOutcomes : Mount(o)
  \/ LateMessage(DirectMessage, DirectRand)
  \/ LateMessageReplaced(DirectMessage, DirectRand)

SpecResub == InitSub /\ [][NextResub]_vars

\* the audio asset: the service has been imported (line 92), the first load
\* is running or, when the element could not be set up, the timer of its
\* retry is armed (lines 62-72), and the hook is not mounted yet
InitLoad ==
  /\ now = 0
  /\ activeNotifications = <<>>
  /\ failedNotifications = <<>>
  /\ calls = <<>>
  /\ retryTimers = {}
  /\ retryLoops = <<>>
  /\ hasBridge = FALSE
  /\ provider = [notifications |-> <<>>, queue |-> <<>>, dismissedAt |-> 0 - 1,
                isInitialized |-> FALSE, requests |-> 0]
  /\ permission = "denied"
  /\ notificationSoundLoaded = FALSE
  /\ \/ /\ notificationSound = 1
        /\ soundLoads = {[el |-> 1, retryCount |-> 0, wait |-> 0]}
     \/ /\ notificationSound = 0
        /\ soundLoads = {[el |-> 1, retryCount |-> 0, wait |-> LoadRetryDelay(0)]}
  /\ notifications = <<>>
  /\ updateQueue = <<>>
  /\ alternateLanes = FALSE
  /\ pendingNotificationsRef = <<>>
  /\ isAppVisibleRef = TRUE
  /\ visibilityState = TRUE
  /\ processedMessageIdsRef = {}
  /\ playSound = TRUE
  /\ listenerPlaySound = TRUE
  /\ directRecs = {}
  /\ storedNotifications = JsonStringify(DEMO_NOTIFICATIONS)
  /\ storedSound = "true"
  /\ storageState = "ok"
  /\ unsubscribeRef = 0
  /\ liveSubs = {}
  /\ reconnectCountRef = 0
  /\ retryTimeoutRef = 0
  /\ reconnectTimers = {}
  /\ checkIntervals = 0
  /\ mounted = FALSE
  /\ staleListeners = <<>>
  /\ failRun = 0

NextLoad ==
  \/ \E l \in soundLoads : SoundLoaded(l)
  \/ \E l \in soundLoads : SoundLoadError(l)
  \/ \E l \in soundLoads, throws \in BOOLEAN : SoundLoadRetryFires(l, throws)
  \/ EnsureReady

SpecLoad == InitLoad /\ [][NextLoad]_vars

\* the health check of an active manager and the delivery it runs
InitHealth ==
  /\ Init
  /\ unsubscribeRef # 0
  /\ notificationSoundLoaded
  /\ notificationSound = 1
  /\ ~playSound

NextHealth ==
  \/ HealthCheckTick
  \/ \E i \in 1..Len(calls), ok \in BOOLEAN, bt \in BOOLEAN, ot \in BOOLEAN :
       PlaySettles(i, ok, bt, ot)
  \/ \E i \in 1..Len(calls) : SoundRetryFires(i)
  \/ \E i \in 1..Len(calls), res \in {"granted", "denied", "default", "reject"},
        ot \in BOOLEAN : PermissionSettles(i, res, ot)
  \/ \E t \in retryTimers : AutoRetryFires(t)
  \/ TickDeliver

SpecHealth == InitHealth /\ [][NextHealth]_vars

\* the sound attempts of the deliveries on their own
NextSound ==
  \/ \E d \in DataSet : Deliver(d)
  \/ \E i \in 1..Len(calls), ok \in BOOLEAN, bt \in BOOLEAN, ot \in BOOLEAN :
       PlaySettles(i, ok, bt, ot)
  \/ \E i \in 1..Len(calls) : SoundRetryFires(i)
  \/ \E i \in 1..Len(calls), res \in {"granted", "denied", "default", "reject"},
        ot \in BOOLEAN : PermissionSettles(i, res, ot)

SpecSound == InitDeliver /\ [][NextSound]_vars

\* every play() promise settles and every 500 ms timer fires
SpecSoundFair ==
  /\ SpecSound
  /\ \A i \in 1..MaxCalls :
       /\ WF_vars(\E ok \in BOOLEAN, bt \in BOOLEAN, ot \in BOOLEAN : PlaySettles(i, ok, bt, ot))
       /\ WF_vars(SoundRetryFires(i))

\* every promise the dispatcher waits for settles and every 500 ms timer fires
DispatcherFair ==
  \A i \in 1..MaxCalls :
    /\ WF_vars(\E ok \in BOOLEAN, bt \in BOOLEAN, ot \in BOOLEAN : PlaySettles(i, ok, bt, ot))
    /\ WF_vars(SoundRetryFires(i))
    /\ WF_vars(\E res \in {"granted", "denied", "default", "reject"}, ot \in BOOLEAN :
                 PermissionSettles(i, res, ot))

SpecSettleFair == SpecSound /\ DispatcherFair

SpecHookDeliverFair == SpecHookDeliver /\ DispatcherFair

\* a retry timer fires and the push source accepts the subscription
RetrySucceeds == \E t \in reconnectTimers : ReconnectTimerFires(t, "handle")

\* timers fire, and the push source does not refuse for ever
SpecSubFair == SpecSub /\ WF_vars(RetrySucceeds)

Next ==
  \/ NextDeliver \/ NextHookDeliver \/ NextStore \/ NextSub
  \/ NextAdd \/ NextMark \/ NextStart \/ NextHealth \/ NextSound
  \/ NextLate \/ NextResub \/ NextLoad
  \/ NextPersist \/ NextFlag \/ NextProvider \/ NextParse \/ NextPermission

Spec == Init /\ [][Next]_vars

----------------------------------------------------------------------------
(* Properties of the dispatcher *)

VisualTouches == {"bridge", "permcheck", "permreq", "os"}

\* C7: in every invocation of showNotification the sound attempt is the first
\* thing started: the native bridge, the permission check, the permission
\* request and the OS notification come after it in the invocation's trace,
\* whichever channel the invocation ends on (bridge, os, ui) and also when it
\* ends in the catch block (failed).
SoundAttemptedFirst ==
  \A i \in 1..Len(calls) :
    LET tr == calls[i].trace IN
    /\ Len(tr) >= 1
    /\ tr[1] = "sound"
    /\ \A k \in 2..Len(tr) : tr[k] \in VisualTouches
    /\ calls[i].pc = "done" => calls[i].channel \in {"bridge", "os", "ui", "failed"}

\* invocations that ended on the bridge, on the OS notification and in the
\* catch block, each after its sound attempt
SoundAttemptedFirstWitness ==
  \E i, j, k \in 1..Len(calls) :
    /\ calls[i].channel = "bridge" /\ calls[i].trace = <<"sound", "bridge">>
    /\ calls[j].channel = "os" /\ calls[j].trace[Len(calls[j].trace)] = "os"
    /\ calls[k].channel = "failed" /\ calls[k].trace[Len(calls[k].trace)] = "permreq"

\* a step of the dispatcher on its own: an invocation that was running goes
\* on, or a retry timer fires, or a caller other than the hook starts one
DispatcherStep ==
  \/ \E i \in 1..Len(calls) : calls'[i] # calls[i]
  \/ retryTimers' # retryTimers
  \/ Len(calls') > Len(calls) /\ calls'[Len(calls')].origin # "hook"

\* C8: no step of showNotification changes the Store (rendered or queued) or
\* the background buffer, whatever the bridge and the permission state are;
\* the step in which the hook starts a delivery changes the Store by the
\* hook's own setNotifications and nothing else (an add is queued, or none
\* when the updater ran at once on a duplicate); and with the bridge absent
\* and the permission denied every invocation returns: it resolves after
\* its sound attempt on the UI fall-through, and it does so eventually when
\* every promise it waits for settles and every timer fires.
DeliverLeavesStore ==
  /\ [][DispatcherStep =>
          UNCHANGED <<notifications, updateQueue, pendingNotificationsRef>>]_vars
  /\ [][Len(calls') > Len(calls) /\ calls'[Len(calls')].origin = "hook" =>
          /\ UNCHANGED <<notifications, pendingNotificationsRef>>
          /\ \/ updateQueue' = updateQueue
             \/ /\ Len(updateQueue') = Len(updateQueue) + 1
                /\ SubSeq(updateQueue', 1, Len(updateQueue)) = updateQueue
                /\ updateQueue'[Len(updateQueue')].kind = "add"]_vars
  /\ [](\A i \in 1..Len(calls) :
          ~hasBridge /\ calls[i].perm = "denied" /\ calls[i].pc = "done" =>
            /\ calls[i].outcome = "resolved"
            /\ calls[i].trace = <<"sound", "permcheck">>
            /\ calls[i].channel = "ui")
  /\ \A i \in 1..MaxCalls :
       (Len(calls) >= i /\ ~hasBridge /\ permission = "denied")
         ~> (Len(calls) >= i /\ calls[i].pc = "done")

\* C9: the promise of showNotification resolves and never rejects: no
\* invocation rejects, an invocation that has returned has resolved, and
\* when every promise it waits for settles and every timer fires each
\* invocation resolves, whatever the sound, the bridge, the permission
\* request and the OS notification did, their raising included.
DeliverResolves ==
  /\ [](\A i \in 1..Len(calls) :
          /\ calls[i].outcome # "rejected"
          /\ calls[i].pc = "done" => calls[i].outcome = "resolved"
          /\ calls[i].origin = "health" /\ calls[i].pc = "done" =>
               TestNotificationResult(calls[i]))
  /\ \A i \in 1..MaxCalls :
       (Len(calls) >= i) ~> (Len(calls) >= i /\ calls[i].outcome = "resolved")

\* C10: an invocation of showNotification causes at most one automatic
\* retry: no invocation is the retry of a retry.
AtMostOneAutoRetry == \A i \in 1..Len(calls) : calls[i].gen <= 1

----------------------------------------------------------------------------
(* Properties of the subscription manager *)

\* C4: the reconnect attempt counter is an integer between 0 and 5 in every
\* state, whatever subscribe failures, successes, messages and timer
\* firings have happened.
ReconnectCountInRange == reconnectCountRef \in 0..5

\* five setups in a row have failed: the counter is at its maximum
ReconnectCountInRangeWitness == reconnectCountRef = 5 /\ failRun = 5

\* the retry timer scheduled last, while it is pending
LastRetryTimer == {t \in reconnectTimers : t.id = retryTimeoutRef}

BackoffTable == <<1000, 2000, 4000, 8000, 16000>>

\* C5: counted from a counter of 0, the retry scheduled after the k-th
\* failure in a row (k = 1..5) is delayed min(30000, 2^(k-1) * 1000) ms, that
\* is 1000, 2000, 4000, 8000, 16000, and leaves the counter at k; the retry
\* scheduled after the 6th failure is delayed 60000 ms and leaves the counter
\* at 0.
BackoffSchedule ==
  /\ failRun \in 0..6
  /\ mounted /\ failRun >= 1 => LastRetryTimer # {}
  /\ \A t \in LastRetryTimer :
       /\ failRun \in 1..5 =>
            /\ t.delay = BackoffTable[failRun]
            /\ t.delay = Min(30000, Pow2(failRun - 1) * 1000)
            /\ reconnectCountRef = failRun
       /\ failRun = 6 => t.delay = 60000 /\ reconnectCountRef = 0

\* the sixth failure in a row has scheduled its retry
BackoffScheduleWitness ==
  /\ failRun = 6
  /\ \E t \in LastRetryTimer : t.delay = 60000

\* C6: while the effect is mounted, a manager without a subscription handle
\* has a retry timer pending; and, timers firing and the push source not
\* refusing for ever, a manager without a handle gets one (or is torn down).
RetryNeverAbandoned ==
  /\ [](mounted /\ unsubscribeRef = 0 => LastRetryTimer # {})
  /\ ((mounted /\ unsubscribeRef = 0) ~> (unsubscribeRef # 0 \/ ~mounted))

\* the retry after the sixth failure is pending and the manager is mounted
RetryNeverAbandonedWitness ==
  /\ mounted /\ unsubscribeRef = 0
  /\ failRun = 6
  /\ LastRetryTimer # {}

----------------------------------------------------------------------------
(* Properties of the Store and the background buffer *)

\* a visibilitychange event from hidden to visible
RisingEdge == visibilityState' /\ ~visibilityState

\* C1: a rising edge of visibility puts every buffered record into the
\* Store exactly once, in arrival order and ahead of the records the Store
\* holds, and leaves the buffer empty, whenever the queued update runs; with
\* an empty buffer it changes nothing.
FlushInsertsBuffer ==
  [][RisingEdge =>
       /\ pendingNotificationsRef' = <<>>
       /\ ApplyQueue(notifications', updateQueue', pendingNotificationsRef')
            = pendingNotificationsRef \o StoreView]_vars

SameWireMessage(a, b) ==
  /\ a.chatId = b.chatId
  /\ a.groupId = b.groupId
  /\ a.senderName = b.senderName
  /\ a.message = b.message
  /\ a.type = b.type

\* C2: the Store never holds two records of the same wire message whose
\* arrivals are at most 100 ms apart, whether they were added while visible
\* or buffered and flushed.
OneRecordPerWireMessage ==
  \A i, j \in 1..Len(notifications) :
    (i < j /\ SameWireMessage(notifications[i], notifications[j]))
      => ~(notifications[i].timestamp - notifications[j].timestamp \in -100..100)

\* C3: of the records the stream callback added while the surface was
\* visible, no two in the Store (as rendered, and with the queued updates
\* applied) have the same message text and kind and timestamps less than
\* 5000 ms apart.
VisibleDedup ==
  \A st \in {notifications, StoreView} :
    \A i, j \in 1..Len(st) :
      (/\ i < j
       /\ st[i] \in directRecs /\ st[j] \in directRecs
       /\ st[i].message = st[j].message
       /\ st[i].type = st[j].type)
        => \/ st[i].timestamp - st[j].timestamp >= 5000
           \/ st[j].timestamp - st[i].timestamp >= 5000

\* three events of one message while visible: the second was dropped, the
\* third, exactly 5000 ms after the first, is in the Store
VisibleDedupWitness ==
  /\ updateQueue = <<>>
  /\ \E a, b, c \in directRecs :
       /\ a.message = b.message /\ a.type = b.type
       /\ b.message = c.message /\ b.type = c.type
       /\ b.timestamp - a.timestamp \in 1..4999
       /\ c.timestamp - a.timestamp = 5000
       /\ \E i, j \in 1..Len(notifications) :
            notifications[i] = c /\ notifications[j] = a
       /\ \A i \in 1..Len(notifications) : notifications[i] # b

----------------------------------------------------------------------------
(* Properties of the Store under the operations of its consumers *)

\* C11: no two records of the Store, as rendered, have the same id.
UniqueIds ==
  \A i, j \in 1..Len(notifications) :
    i < j => notifications[i].id # notifications[j].id

\* C12: the Store, as rendered, is sorted by timestamp, newest first.
NewestFirst ==
  \A i, j \in 1..Len(notifications) :
    i < j => notifications[i].timestamp >= notifications[j].timestamp

\* the Store as rendered, and with the queued operations applied
StoreStates == {notifications, StoreView}

\* the Store with the first k queued operations applied
PrefixView(k) == ApplyQueue(notifications, SubSeq(updateQueue, 1, k), pendingNotificationsRef)

ClearUpdate == [kind |-> "set", value |-> <<>>]

\* C13: markAsRead, markAllAsRead, removeNotification and clearNotifications
\* applied twice give the Store they give applied once, on the Store as
\* rendered, with the queued operations applied, and for an operation queued
\* twice in a row; markAsRead of an id whose records are all read or absent,
\* and removeNotification of an absent id, give the Store they were given.
StoreOpsIdempotent ==
  /\ \A s \in StoreStates :
       /\ \A id \in IdSet :
            /\ MarkAsReadUpdater(MarkAsReadUpdater(s, id), id) = MarkAsReadUpdater(s, id)
            /\ RemoveUpdater(RemoveUpdater(s, id), id) = RemoveUpdater(s, id)
            /\ (\A i \in 1..Len(s) : s[i].id = id => s[i].read)
                 => MarkAsReadUpdater(s, id) = s
            /\ (\A i \in 1..Len(s) : s[i].id # id) => RemoveUpdater(s, id) = s
       /\ MarkAllAsReadUpdater(MarkAllAsReadUpdater(s)) = MarkAllAsReadUpdater(s)
       /\ ApplyUpdate(ApplyUpdate(s, ClearUpdate, <<>>), ClearUpdate, <<>>)
            = ApplyUpdate(s, ClearUpdate, <<>>)
  /\ \A k \in 1..(Len(updateQueue) - 1) :
       (/\ updateQueue[k].kind \in {"markRead", "markAll", "remove", "set"}
        /\ updateQueue[k + 1] = updateQueue[k])
         => PrefixView(k + 1) = PrefixView(k)

\* markAsRead of the unread record "1" is queued twice in a row
StoreOpsIdempotentWitness ==
  /\ Len(updateQueue) = 2
  /\ updateQueue[1] = [kind |-> "markRead", id |-> <<"1">>]
  /\ updateQueue[2] = updateQueue[1]
  /\ \E i \in 1..Len(notifications) :
       notifications[i].id = <<"1">> /\ ~notifications[i].read
  /\ \E i \in 1..Len(StoreView) : StoreView[i].id = <<"1">> /\ StoreView[i].read

\* the records of a and b are the same but for their read flags
SameButRead(a, b) ==
  /\ Len(a) = Len(b)
  /\ \A i \in 1..Len(a) : [b[i] EXCEPT !.read = a[i].read] = a[i]

\* C14: markAsRead and markAllAsRead give a Store with the same records in
\* the same order, differing in read flags only, on the Store as rendered,
\* with the queued operations applied, and for each such operation in the
\* queue; markAllAsRead of the empty Store gives the empty Store.
MarkChangesReadOnly ==
  /\ \A s \in StoreStates :
       /\ SameButRead(s, MarkAllAsReadUpdater(s))
       /\ \A id \in IdSet : SameButRead(s, MarkAsReadUpdater(s, id))
       /\ s = <<>> => MarkAllAsReadUpdater(s) = <<>>
  /\ \A k \in 1..Len(updateQueue) :
       updateQueue[k].kind \in {"markRead", "markAll"}
         => SameButRead(PrefixView(k - 1), PrefixView(k))

\* markAllAsRead is queued on a Store that was cleared and rendered empty
MarkChangesReadOnlyWitness ==
  /\ notifications = <<>>
  /\ storedNotifications = JsonStringify(<<>>)
  /\ updateQueue = <<[kind |-> "markAll"]>>
  /\ StoreView = <<>>

\* the duplicate test as stated: a stored record with the same message and
\* kind and a timestamp less than 5000 ms from the new record's, or a stored
\* record with the id of the new record
StatedDuplicate(prev, n) ==
  \E i \in 1..Len(prev) :
    \/ /\ prev[i].message = n.message
       /\ prev[i].type = n.type
       /\ prev[i].timestamp - n.timestamp < DedupWindow
       /\ n.timestamp - prev[i].timestamp < DedupWindow
    \/ prev[i].id = n.id

\* C17: addNotification leaves the Store (with the queued updates applied)
\* as it is when the Store holds a duplicate of the new record as stated, and
\* puts the new record in front of it otherwise.
AddRejectsExactlyDuplicates ==
  [][\A inp \in ManualSet :
       ManualAdd(inp, DirectRand) =>
         LET n == ManualRecord(inp, now, DirectRand) IN
         ApplyQueue(notifications', updateQueue', pendingNotificationsRef')
           = IF StatedDuplicate(StoreView, n) THEN StoreView ELSE <<n>> \o StoreView]_vars

\* a record is in the Store, as rendered or with the queued updates applied
InStore(st, n) == \E i \in 1..Len(st) : [st[i] EXCEPT !.read = FALSE] = [n EXCEPT !.read = FALSE]

\* C18: while the surface is hidden and stays hidden, a step puts no record
\* into the Store that it did not hold: neither into the Store as rendered
\* nor into the Store with the queued updates applied.
HiddenAddsAreBuffered ==
  [][(~isAppVisibleRef /\ ~isAppVisibleRef') =>
       \A i \in 1..Len(ApplyQueue(notifications', updateQueue', pendingNotificationsRef')) :
         LET n == ApplyQueue(notifications', updateQueue', pendingNotificationsRef')[i] IN
         InStore(StoreView, n) \/ InStore(notifications, n)]_vars

----------------------------------------------------------------------------
(* Properties of teardown, start and the health check *)

\* C15: once the effect is cleaned up, the handle held has been invoked and
\* no timer is pending: no reconnect timer, no health-check interval, no
\* automatic retry of the dispatcher and no sound retry.
TeardownCancelsTimers ==
  ~mounted =>
    /\ unsubscribeRef = 0
    /\ liveSubs = {}
    /\ reconnectTimers = {}
    /\ checkIntervals = 0
    /\ retryTimers = {}
    /\ \A i \in 1..Len(calls) : calls[i].pc # "soundwait"

\* the hook is being mounted
MountStep == ~mounted /\ mounted'

\* C16: when the hook starts on a stored list that is missing or cannot be
\* used, the Store starts as the seed notifications; when it starts on a
\* stored flag that is missing or is neither 'true' nor 'false', the sound
\* flag starts as true.
StartFallsBackToDefaults ==
  [][MountStep =>
       /\ storedNotifications.kind # "json" => notifications' = DEMO_NOTIFICATIONS
       /\ storedSound \notin {"true", "false"} => playSound' = TRUE]_vars

\* the native bridge was called and raised
BridgeRaised(c) == SeqHas(c.trace, "bridge") /\ c.pc = "done" /\ c.channel # "bridge"

\* the OS notification was constructed and raised
OsRaised(c) == SeqHas(c.trace, "os") /\ c.pc = "done" /\ c.channel # "os"

\* a delivery that failed: it ended in the catch block, or a channel raised
DeliveryFailed(c) == c.channel = "failed" \/ BridgeRaised(c) \/ OsRaised(c)

\* C19: when the delivery of a health check ends as a failed delivery, the
\* step that ends it runs setupListener again: the manager leaves the state
\* it was in (a new handle, a new interval or a retry timer).
HealthFailureReconnects ==
  [][\A i \in 1..Len(calls) :
       (/\ calls[i].origin = "health"
        /\ calls[i].pc # "done"
        /\ calls'[i].pc = "done"
        /\ DeliveryFailed(calls'[i]))
         => <<unsubscribeRef, liveSubs, reconnectCountRef, retryTimeoutRef,
              reconnectTimers, checkIntervals>>'
              # <<unsubscribeRef, liveSubs, reconnectCountRef, retryTimeoutRef,
                  reconnectTimers, checkIntervals>>]_vars

\* C20: an invocation in which the native bridge raised and the OS
\* notification raised has its id in the failed set and an automatic retry
\* scheduled 1000 ms after it ended.
AllChannelsRaisedIsRetried ==
  \A i \in 1..Len(calls) :
    (BridgeRaised(calls[i]) /\ OsRaised(calls[i]))
      => /\ SeqHas(failedNotifications, calls[i].id)
         /\ \/ \E t \in retryTimers : t.id = calls[i].id
            \/ \E j \in 1..Len(calls) : calls[j].origin = "auto" /\ calls[j].data = calls[i].data

----------------------------------------------------------------------------
(* Properties of the retries, the channels and the sound *)

\* C21: when retryFailedNotifications has taken a failed id from the failed
\* set before the automatic-retry timer of that id fires, the firing of the
\* timer starts no invocation of showNotification, whatever happened between
\* the manual retry and the firing.
HandledTimerDeliversNothing ==
  [][\A t \in retryTimers :
       (t.handled /\ AutoRetryFires(t)) => calls' = calls]_vars

\* the step constructs the OS notification of invocation i
OsShownNow(i) ==
  /\ i \in 1..Len(calls')
  /\ SeqHas(calls'[i].trace, "os")
  /\ i \in 1..Len(calls) => ~SeqHas(calls[i].trace, "os")

\* C22: one invocation of showNotification shows on at most one visual
\* channel. An invocation that ended on the native bridge constructed no OS
\* notification; an OS notification is constructed only when the bridge is
\* absent or raised, and only while the permission is granted.
OneVisualChannel ==
  [][\A i \in 1..Len(calls') :
       /\ calls'[i].channel = "bridge" => ~SeqHas(calls'[i].trace, "os")
       /\ SeqHas(calls'[i].trace, "os") => (~hasBridge \/ BridgeRaised(calls'[i]))
       /\ OsShownNow(i) => permission' = "granted"]_vars

\* the bridge raised and the invocation ended on the OS notification, and
\* another invocation ended on the bridge
OneVisualChannelWitness ==
  \E i, j \in 1..Len(calls) :
    /\ BridgeRaised(calls[i]) /\ calls[i].channel = "os"
    /\ calls[j].channel = "bridge" /\ permission = "granted"

\* the invocations that called Notification.requestPermission()
PermissionRequests == {i \in 1..Len(calls) : SeqHas(calls[i].trace, "permreq")}

\* C23: over the invocations of showNotification the OS permission is
\* requested at most once, it is requested only while it is neither granted
\* nor denied, and an invocation that read the permission as denied
\* constructs no OS notification.
PermissionRequestedOnce ==
  /\ Cardinality(PermissionRequests) <= 1
  /\ \A i \in PermissionRequests : calls[i].perm = "default"
  /\ \A i \in 1..Len(calls) :
       calls[i].perm = "denied" => ~SeqHas(calls[i].trace, "os")

\* C24: playNotificationSound makes its attempts in at most MAX_RETRIES + 1
\* rounds, and when every play() promise settles and every retry timer
\* fires, each invocation of showNotification gets past the sound and reaches
\* the visual channels, also when every play attempt fails.
SoundResolves ==
  /\ [](\A i \in 1..Len(calls) : calls[i].round <= MAX_RETRIES)
  /\ \A i \in 1..MaxCalls :
       (Len(calls) >= i) ~> (Len(calls) >= i /\ calls[i].pc \in {"perm", "done"})

\* C25: while the preloaded asset is unavailable, an invocation makes one
\* ad-hoc attempt and, when that fails, one attempt with the alternate
\* encoding, and then gives up on the sound: no retry of the ad-hoc path is
\* waiting for its timer and no ad-hoc attempt of a later round is running.
AdHocGivesUpAfterAlternate ==
  \A i \in 1..Len(calls) :
    calls[i].path \in {"adhoc", "wav"} =>
      /\ calls[i].pc # "soundwait"
      /\ calls[i].round = 0

----------------------------------------------------------------------------
(* Properties of the subscription handles and of the audio asset *)

\* C26: once the manager is torn down, no step changes the Store, the
\* background buffer or the reconnect counter, and none starts a
\* subscription or a retry timer: a message callback of the cancelled
\* handle, a tick of the health check and a retry timer that fire late are
\* ignored.
TornDownIgnoresLate ==
  [][(~mounted /\ ~mounted') =>
       UNCHANGED <<notifications, pendingNotificationsRef, reconnectCountRef,
                   unsubscribeRef, liveSubs, reconnectTimers>>]_vars

\* C27: the push source holds the callback of at most one handle of the
\* manager at any moment, and that handle is the one the manager holds:
\* whenever it subscribes again, the handle held before has been invoked.
AtMostOneLiveHandle ==
  /\ Cardinality(liveSubs) <= 1
  /\ liveSubs = IF unsubscribeRef # 0 THEN {unsubscribeRef} ELSE {}

\* a second handle was returned, after retries, and is the only live one
AtMostOneLiveHandleWitness ==
  /\ checkIntervals = 2
  /\ liveSubs = {unsubscribeRef}
  /\ retryTimeoutRef # 0

\* the delays of the first, second and third retry of a load
LoadDelayTable == <<1000, 2000, 4000>>

\* C28: a load chain retries at most MAX_RETRIES times, its retries wait
\* 1000, 2000 and 4000 ms, and the failure of the load after the third retry
\* leaves the asset unavailable (not loaded, no element) and sets no further
\* timer.
LoadChainBackoff ==
  /\ [](\A l \in soundLoads :
         /\ l.retryCount \in 0..MAX_RETRIES
         /\ l.wait > 0 => /\ l.retryCount < MAX_RETRIES
                          /\ l.wait = LoadDelayTable[l.retryCount + 1])
  /\ [][\A l \in soundLoads :
          (l.retryCount = MAX_RETRIES /\ SoundLoadError(l))
            => /\ ~notificationSoundLoaded'
               /\ notificationSound' = 0
               /\ soundLoads' = soundLoads \ {l}]_vars

\* the only chain has ended after its last load failed
LoadChainBackoffWitness ==
  /\ ~notificationSoundLoaded
  /\ notificationSound = 0
  /\ soundLoads = {}

\* C29: ensureNotificationsReady starts no load while the sound is confirmed
\* loaded, and none while a load chain is in progress: a second call in a
\* row leaves the element and the chains as the first call left them, so at
\* most one load chain is in progress at any time.
EnsureReadyIdempotent ==
  /\ [](Cardinality(soundLoads) <= 1)
  /\ [][(EnsureReady /\ (notificationSoundLoaded \/ soundLoads # {}))
          => UNCHANGED <<notificationSound, soundLoads>>]_vars

----------------------------------------------------------------------------
(* Properties of the fingerprint *)

\* C30: two stream events that carry the same wire message (chat, sender
\* and text) less than RegistryWindow apart get the same fingerprint: the
\* registry never holds two fingerprints of one message that were taken
\* within the window.
SameMessageSameFingerprint ==
  \A m \in MsgSet : \A t1, t2 \in StoreClock :
    (/\ generateMessageId(m, t1) \in processedMessageIdsRef
     /\ generateMessageId(m, t2) \in processedMessageIdsRef
     /\ t1 - t2 < RegistryWindow /\ t2 - t1 < RegistryWindow)
      => generateMessageId(m, t1) = generateMessageId(m, t2)

----------------------------------------------------------------------------
(* Properties of the storage, of the active list and of the provider *)

\* C31: once the mutations of the Store have been rendered, the storage
\* holds the list of the Store and reading it back gives the Store; a start
\* of the hook that follows reloads the Store as the last mutation left it,
\* the empty Store after clearNotifications included.
PersistedAfterMutation ==
  /\ []((mounted /\ updateQueue = <<>>) =>
          /\ storedNotifications = JsonStringify(notifications)
          /\ LoadNotifications(storedNotifications) = notifications)
  /\ [][(MountStep /\ updateQueue = <<>>) => notifications' = notifications]_vars

\* the invocations that are not a retry of an earlier one
RootCalls == {i \in 1..Len(calls) : calls[i].origin \notin {"auto", "manual"}}

\* the invocation has shown the notification on the bridge or as an OS notification
Displayed(c) == c.pc = "done" /\ c.channel \in {"bridge", "os"}

\* C32: when one notification was passed to showNotification and an
\* invocation for it (the first one, an automatic retry or a manual retry)
\* has shown it, the failed set holds no id of that notification, so that a
\* later retryFailedNotifications has nothing of it to deliver.
DisplayedLeavesFailedSet ==
  (/\ Cardinality(RootCalls) = 1
   /\ \E i \in 1..Len(calls) : Displayed(calls[i]))
    => \A k \in 1..Len(failedNotifications) :
         \A r \in RootCalls : ParseFailedId(failedNotifications[k]) # calls[r].data

\* C33: when one notification was passed to showNotification, the active
\* list holds it at most once, also after automatic and manual retries of
\* its delivery.
ActiveListHoldsOnce ==
  Cardinality(RootCalls) = 1 =>
    \A r \in RootCalls :
      Cardinality({k \in 1..Len(activeNotifications) :
                     activeNotifications[k] = calls[r].data}) <= 1

\* the stream callback hands a record to addNotification and the updater of
\* lines 429-444 returns the list it was given
StreamAddRejected ==
  /\ OnMessage(DirectMessage, DirectRand)
  /\ isAppVisibleRef
  /\ generateMessageId(DirectMessage, now) \notin processedMessageIdsRef
  /\ AddUpdater(StoreView, MessageNotification(DirectMessage, now, DirectRand)) = StoreView

\* C34: an addNotification whose record is rejected as a duplicate starts no
\* delivery through the dispatcher: no invocation of showNotification (sound,
\* OS notification) and no new entry of the active list.
DuplicateAddDeliversNothing ==
  [][StreamAddRejected =>
       /\ calls' = calls
       /\ activeNotifications' = activeNotifications]_vars

\* C35: while the sound flag is false and stays false, no step starts an
\* invocation of showNotification and none adds to the active list: an add
\* by a consumer and a stream message received after setPlaySound(false)
\* start no delivery.
FlagOffNoDelivery ==
  [][(~playSound /\ ~playSound') =>
       /\ Len(calls') = Len(calls)
       /\ activeNotifications' = activeNotifications]_vars

\* C36: a tick of the health check leaves the active list and the Store as
\* they were, and the invocation of showNotification it runs shows nothing
\* to the user: it ends neither on the native bridge nor on an OS
\* notification.
HealthCheckIsSilent ==
  /\ [][HealthCheckTick =>
          /\ activeNotifications' = activeNotifications
          /\ notifications' = notifications]_vars
  /\ [](\A i \in 1..Len(calls) : calls[i].origin = "health" => ~Displayed(calls[i]))

\* C37: from dismissAllNotifications until showNotification is called
\* again, the list of the provider is empty, whatever number of polls of the
\* service's active list has run in between.
DismissAllStaysEmpty ==
  provider.dismissedAt = Len(calls) => ProviderView = <<>>

\* C38: the bell's markAllAsRead, run on a list of the provider that is the
\* active list of the service, leaves both lists empty, whatever their
\* length.
BellMarkAllEmptiesBoth ==
  [][(/\ BellMarkAllAsRead
      /\ provider.queue = <<>>
      /\ provider.notifications = activeNotifications) =>
       /\ activeNotifications' = <<>>
       /\ ProviderView' = <<>>]_vars

\* C39: the title and the message read back from the id of a failed
\* delivery are the title and the message it was built from, also when they
\* contain the delimiter, and every manual retry delivers the title and the
\* message of a delivery that failed before it.
RetryParsesBack ==
  /\ \A d \in ParseData : \A t \in DeliverClock :
       d.message # <<>> => ParseFailedId(generateNotificationId(d, t)) = d
  /\ \A i \in 1..Len(calls) :
       calls[i].origin = "manual" =>
         \E j \in 1..(i - 1) : calls[j].channel = "failed" /\ calls[j].data = calls[i].data

\* C40: whatever the interleaving of the load chain started at import with
\* the chains ensureNotificationsReady starts, the sound is marked loaded only
\* while notificationSound holds an element, and the element it holds when a
\* chain reports canplaythrough is the element that reported it.
LoadedMeansElement ==
  /\ [](notificationSoundLoaded => notificationSound # 0)
  /\ [][\A l \in soundLoads : SoundLoaded(l) => notificationSound' = l.el]_vars

====
